---- MODULE Spec2Model ----
(***************************************************************************)
(* WhatPulse Web Insights browser extension: the background service worker *)
(* (src/background/background.js) as a state machine.                      *)
(*                                                                         *)
(* The worker is single threaded: every action below is one event handler *)
(* (or one continuation after an await) run to completion.  Handlers are   *)
(* written as functions from a record S of the worker's globals to the     *)
(* record after the call, so that nested calls compose as in the source.   *)
(*                                                                         *)
(* Time is counted in ticks of MsPerTick milliseconds; Date.now() is the   *)
(* field S.now.  JavaScript null is Null (0) for references and NoTime     *)
(* (-1) for timestamps: Date.now() is never 0 in the program, the model's  *)
(* clock starts at 0, so "falsy" timestamps are exactly NoTime.            *)
(***************************************************************************)
EXTENDS Integers, Sequences, FiniteSets, TLC

\* ------------------------------------------------------------ constants
USAGE_REPORT_INTERVAL_MS == 30000
RECONNECT_DELAY_MS == 5000
PEER_MAX_SECONDS == 35

\* model resolution: two ticks per second, so that Math.floor(ms / 1000) truncates
MsPerTick == 1000 \div 2
TicksPerSecond == 1000 \div MsPerTick
Ticks(ms) == ms \div MsPerTick

\* JavaScript evaluates an argument once, before the call: the operators below that
\* stand for functions of the worker bind their arguments' values in this way
Value(set) == CHOOSE r \in set : TRUE

\* ------------------------------------------------------------ bounds
MaxTime == 80           \* the clock stops here (ticks)
MaxFineSteps == 1       \* single-tick clock steps in one run
MaxEvents == 3          \* events from the browser, the peer and the user in one run
MaxSockets == 2         \* sockets that are not yet garbage at one time
MaxInputMsgs == 1       \* inputStats messages in one run
MaxInFlight == 1        \* pending continuations of one kind started by the environment

Null == 0
NoTime == -1
NoClientId == ""
NoDomain == <<>>

\* ------------------------------------------------------------ URLs and domains
\* A URL as new URL(url) parses it: protocol and hostname (a sequence of
\* characters), or parse failure.
URL_A == [ok |-> TRUE, protocol |-> "https:",
          hostname |-> <<"w","w","w",".","a",".","c","o">>]
URL_B == [ok |-> TRUE, protocol |-> "http:", hostname |-> <<"b",".","i","o">>]
URL_INTERNAL == [ok |-> TRUE, protocol |-> "chrome:",
                 hostname |-> <<"n","e","w","t","a","b">>]
URL_SECRET == [ok |-> TRUE, protocol |-> "https:", hostname |-> <<"x",".","x","x">>]

Digits == {"0", "1", "2", "3", "4", "5", "6", "7", "8", "9"}

\* hostname.replace(/^www\./, '')
StripWww(h) ==
    IF Len(h) >= 4 /\ SubSeq(h, 1, 4) = <<"w","w","w",".">>
    THEN SubSeq(h, 5, Len(h)) ELSE h

\* the labels of a dotted name: domain.split('.')
RECURSIVE SplitDots(_)
SplitDots(h) ==
    IF \A i \in 1..Len(h) : h[i] # "."
    THEN <<h>>
    ELSE LET k == CHOOSE i \in 1..Len(h) :
                     h[i] = "." /\ \A j \in 1..(i-1) : h[j] # "."
         IN <<SubSeq(h, 1, k-1)>> \o SplitDots(SubSeq(h, k+1, Len(h)))

\* /^(\d{1,3}\.){3}\d{1,3}$/
IsIPv4(h) ==
    LET parts == SplitDots(h) IN
    /\ Len(parts) = 4
    /\ \A i \in 1..4 : /\ Len(parts[i]) \in 1..3
                       /\ \A j \in 1..Len(parts[i]) : parts[i][j] \in Digits

\* a faulty variant: the www. label is kept
extractDomainKeepsWww(url) ==
    IF ~url.ok THEN NoDomain
    ELSE IF url.protocol # "http:" /\ url.protocol # "https:" THEN NoDomain
    ELSE LET domain == url.hostname
             parts == SplitDots(domain)
         IN IF IsIPv4(domain) \/ (\E i \in 1..Len(domain) : domain[i] = ":")
            THEN NoDomain
            ELSE IF \A i \in 1..Len(domain) : domain[i] # "." THEN NoDomain
            ELSE IF Len(parts[Len(parts)]) < 2 THEN NoDomain
            ELSE domain

extractDomain(url) ==
    IF ~url.ok THEN NoDomain
    ELSE IF url.protocol # "http:" /\ url.protocol # "https:" THEN NoDomain
    ELSE LET domain == StripWww(url.hostname)
             parts == SplitDots(domain)
         IN IF IsIPv4(domain) \/ (\E i \in 1..Len(domain) : domain[i] = ":")
            THEN NoDomain
            ELSE IF \A i \in 1..Len(domain) : domain[i] # "." THEN NoDomain
            ELSE IF Len(parts[Len(parts)]) < 2 THEN NoDomain
            ELSE domain

\* the popup's copy (src/popup/popup.js)
popupExtractDomain(url) ==
    IF ~url.ok THEN NoDomain
    ELSE IF url.protocol # "http:" /\ url.protocol # "https:" THEN NoDomain
    ELSE LET hostname == url.hostname
             domain == StripWww(hostname)
         IN IF IsIPv4(domain) \/ (\E i \in 1..Len(domain) : domain[i] = ":")
            THEN NoDomain
            ELSE IF ~(\E i \in 1..Len(domain) : domain[i] = ".") THEN NoDomain
            ELSE LET parts == SplitDots(domain)
                     tld == parts[Len(parts)]
                 IN IF Len(tld) < 2 THEN NoDomain ELSE domain

\* new URL(url) for a URL given as its characters: the scheme up to the first ":",
\* then, for http and https, any slashes and the host up to the port or the path;
\* scheme and host come out in lower case; a URL without scheme, or an http(s) URL
\* without host, does not parse.  (Hosts whose last label is a number are
\* canonicalised by the browser's parser; here they are dotted quads, which it
\* leaves as they are.)
LowerOf ==
    [c \in {"A", "C", "E", "H", "I", "L", "M", "O", "P", "S", "T", "W", "X"} |->
        CASE c = "A" -> "a" [] c = "C" -> "c" [] c = "E" -> "e" [] c = "H" -> "h"
          [] c = "I" -> "i" [] c = "L" -> "l" [] c = "M" -> "m" [] c = "O" -> "o"
          [] c = "P" -> "p" [] c = "S" -> "s" [] c = "T" -> "t" [] c = "W" -> "w"
          [] c = "X" -> "x"]
LowerCase(str) ==
    [i \in 1..Len(str) |-> IF str[i] \in DOMAIN LowerOf THEN LowerOf[str[i]] ELSE str[i]]
\* the index of the first character of str that is in chars, or Len(str) + 1
FirstOf(str, chars) ==
    IF \E i \in 1..Len(str) : str[i] \in chars
    THEN CHOOSE i \in 1..Len(str) : str[i] \in chars /\ \A j \in 1..(i-1) : str[j] \notin chars
    ELSE Len(str) + 1
RECURSIVE SkipSlashes(_)
SkipSlashes(str) ==
    IF str # <<>> /\ Head(str) = "/" THEN SkipSlashes(Tail(str)) ELSE str
HostnameOf(authority) ==
    IF authority # <<>> /\ Head(authority) = "["
    THEN SubSeq(authority, 1, FirstOf(authority, {"]"}))
    ELSE SubSeq(authority, 1, FirstOf(authority, {":"}) - 1)
NotParsed == [ok |-> FALSE, protocol |-> "", hostname |-> <<>>]
ParseUrl(raw) ==
    LET k == FirstOf(raw, {":", "/", "?", "#"}) IN
    IF k = 1 \/ k > Len(raw) \/ raw[k] # ":" THEN NotParsed
    ELSE LET scheme == LowerCase(SubSeq(raw, 1, k - 1))
             rest == SubSeq(raw, k + 1, Len(raw))
             special == scheme \in {<<"h","t","t","p">>, <<"h","t","t","p","s">>}
             after == IF special THEN SkipSlashes(rest)
                      ELSE IF Len(rest) >= 2 /\ SubSeq(rest, 1, 2) = <<"/","/">>
                      THEN SubSeq(rest, 3, Len(rest))
                      ELSE <<>>
             authority == SubSeq(after, 1, FirstOf(after, {"/", "?", "#"}) - 1)
             hostname == LowerCase(HostnameOf(authority))
         IN IF special /\ hostname = <<>> THEN NotParsed
            ELSE [ok |-> TRUE,
                  protocol |-> IF scheme = <<"h","t","t","p">> THEN "http:"
                               ELSE IF scheme = <<"h","t","t","p","s">> THEN "https:"
                               ELSE "other:",
                  hostname |-> hostname]

\* The browser has two tabs: tab 1 in a normal window, tab 2 in a private one.
NormalUrls == {URL_A, URL_B, URL_INTERNAL}
TabIds == {1, 2}
Incognito(t) == t = 2
Urls == NormalUrls \cup {URL_SECRET}
\* extractDomain of the URLs the browser shows, computed once
DomainOf == [u \in Urls |-> extractDomain(u)]
Domains == {DomainOf[u] : u \in Urls} \ {NoDomain}
SecretDomain == DomainOf[URL_SECRET]


\* ------------------------------------------------------------ state
VARIABLES
    now,                \* Date.now(), in ticks
    browser,            \* the browser: active tab, tab 1's URL, the platform's idle state
    storage,            \* chrome.storage.local: authToken, enabled
    config,             \* config.authToken, config.enabled
    clientId,           \* the install's client id, NoClientId until it is initialized
    websocket,          \* the session socket (a socket id) or Null
    usageReportTimer,   \* handle of the report interval, or Null
    reconnectTimer,     \* handle of the reconnect timeout, or Null
    currentState,       \* activeTabId, activeDomain, isFocused, isIdle
    timeTracking,       \* currentDomain, domainStartTime, accumulatedTime, lastReportTime
    accumulatedInput,   \* domain -> keys, clicks, scrolls, mouseDistanceIn
    metadataSentTimes,  \* domain -> lastSentTimestamp or NoTime
    sockets,            \* socket id -> readyState and what the peer saw on it
    intervals,          \* the live setInterval timers: {[id, due]}
    timeouts,           \* the pending setTimeout timers: {[id, due]}
    tasks,              \* suspended continuations: kind -> how many
    probe,              \* the connection test: its socket, timeout and response
    lookup,             \* a URL and what extractDomain made of it, here and in the popup
    content,            \* the content script of tab 1: its counters and its messages under way
    sendLog,            \* the sendMessage calls of the last handler, in order
    hist,               \* history: what was credited and sent so far, the clock's use
    ev                  \* the handler that ran last

vars == <<now, browser, storage, config, clientId, websocket, usageReportTimer, reconnectTimer,
          currentState, timeTracking, accumulatedInput, metadataSentTimes, sockets,
          intervals, timeouts, tasks, probe, lookup, content, sendLog, hist, ev>>

\* what a status query was answered: the values are JavaScript's, as text
NoStatus == [connected |-> "", connecting |-> "", pendingPairing |-> "",
             currentDomain |-> NoDomain, reason |-> ""]
\* what a connection test was answered, and no answer yet
NoResponse == [success |-> FALSE, message |-> "", error |-> ""]
\* no connection test was asked for yet
NoProbe == [state |-> "NONE", timer |-> NoTime, answered |-> FALSE,
            response |-> NoResponse, calls |-> 0, opened |-> FALSE]

\* The worker's globals and its environment as one record.
Cur ==
    [now |-> now, browser |-> browser, storage |-> storage, config |-> config,
     clientId |-> clientId,
     websocket |-> websocket, usageReportTimer |-> usageReportTimer,
     reconnectTimer |-> reconnectTimer, currentState |-> currentState,
     timeTracking |-> timeTracking, accumulatedInput |-> accumulatedInput,
     metadataSentTimes |-> metadataSentTimes, sockets |-> sockets,
     intervals |-> intervals, timeouts |-> timeouts, tasks |-> tasks,
     probe |-> probe, content |-> content,
     sendLog |-> <<>>,
     hist |-> [hist EXCEPT !.threw = FALSE, !.received = "none", !.disconnected = FALSE,
                           !.sender = Null, !.status = NoStatus],
     ev |-> ev]

\* The handler named e ran and left R0.  A closed socket that the worker no longer
\* refers to can raise no event and is forgotten.
Commit(R0, e) ==
    \E R \in {R0} :
    /\ now' = R.now
    /\ browser' = R.browser
    /\ storage' = R.storage
    /\ config' = R.config
    /\ clientId' = R.clientId
    /\ websocket' = R.websocket
    /\ usageReportTimer' = R.usageReportTimer
    /\ reconnectTimer' = R.reconnectTimer
    /\ currentState' = R.currentState
    /\ timeTracking' = R.timeTracking
    /\ accumulatedInput' = R.accumulatedInput
    /\ metadataSentTimes' = R.metadataSentTimes
    /\ sockets' = [s \in DOMAIN R.sockets |->
                      IF R.sockets[s].state = "CLOSED" /\ R.websocket # s
                      THEN [state |-> "FREE", hello |-> "none", replied |-> FALSE]
                      ELSE R.sockets[s]]
    /\ intervals' = R.intervals
    /\ timeouts' = R.timeouts
    /\ tasks' = R.tasks
    /\ probe' = R.probe
    /\ lookup' = lookup
    /\ content' = R.content
    /\ sendLog' = R.sendLog
    /\ hist' = R.hist
    /\ ev' = e

ZeroInput == [keys |-> 0, clicks |-> 0, scrolls |-> 0, mouseDistanceIn |-> 0]
\* message.field || 0
Or0(message, field) == IF field \in DOMAIN message THEN message[field] ELSE 0
\* what the inputStats listener reads of a message
Counts(message) ==
    [keys |-> Or0(message, "keys"), clicks |-> Or0(message, "clicks"),
     scrolls |-> Or0(message, "scrolls"),
     mouseDistanceIn |-> Or0(message, "mouseDistanceIn")]
AddInput(a, b) ==
    [keys |-> a.keys + b.keys, clicks |-> a.clicks + b.clicks,
     scrolls |-> a.scrolls + b.scrolls,
     mouseDistanceIn |-> a.mouseDistanceIn + b.mouseDistanceIn]

TaskKinds == {"updateCurrentTab", "focusRegained", "checkIdleState", "sendHello",
              "storageEvent", "storageWasEnabled", "storageWasDisabled"}

Spawn(S0, kind0) ==
    Value({
        [S EXCEPT !.tasks[kind] = @ + 1]
        : S \in {S0}, kind \in {kind0} })

\* Is the browser focused and the user not idle, as the worker sees it?
Active(S) == S.currentState.isFocused /\ ~S.currentState.isIdle

\* ------------------------------------------------------------ sendMessage
SocketOpen(S) ==
    S.websocket # Null /\ S.sockets[S.websocket].state = "OPEN"

BlankMsg ==
    [type |-> "", ok |-> FALSE, sock |-> Null, ts |-> NoTime, schema_version |-> 0,
     client_id |-> NoClientId, auth_token |-> "", report |-> {}, period_start |-> NoTime,
     period_end |-> NoTime, domain |-> NoDomain]

ReportSeconds(report, d) ==
    IF \E e \in report : e.domain = d
    THEN (CHOOSE e \in report : e.domain = d).seconds ELSE 0

ReportInput(report, d) ==
    IF \E e \in report : e.domain = d
    THEN LET e == CHOOSE x \in report : x.domain = d
         IN [keys |-> e.keys, clicks |-> e.clicks, scrolls |-> e.scrolls,
             mouseDistanceIn |-> e.mouse_distance_in]
    ELSE ZeroInput

\* a faulty variant: the message goes out as the caller made it
sendMessageUnstamped(S0, msg0) ==
    Value({
        LET ok == SocketOpen(S)
            m == [msg EXCEPT !.ok = ok, !.sock = S.websocket,
                             !.ts = NoTime, !.schema_version = 0, !.client_id = NoClientId]
            S1 == [S EXCEPT !.sendLog = Append(@, m)]
        IN IF ~ok
           THEN IF msg.type = "usage_report" THEN [S1 EXCEPT !.hist.heldBack = TRUE] ELSE S1
           ELSE IF msg.type = "hello"
           THEN [S1 EXCEPT !.sockets[S.websocket].hello =
                               IF msg.auth_token = "" THEN "empty" ELSE "token",
                           !.hist.rejected = IF @ = "yes" THEN "retried" ELSE @]
           ELSE IF msg.type = "usage_report"
           THEN [S1 EXCEPT
                   !.hist.sentTime = [d \in Domains |-> @[d] + ReportSeconds(msg.report, d)],
                   !.hist.sentInput =
                       [d \in Domains |-> AddInput(@[d], ReportInput(msg.report, d))],
                   !.hist.lastSentAt = S.now]
           ELSE S1
        : S \in {S0}, msg \in {msg0} })

\* sendMessage(msg): the call is logged with its result; a message that was
\* sent is seen by the peer (the hello of a socket, the totals of the reports).
sendMessage(S0, msg0) ==
    Value({
        LET ok == SocketOpen(S)
            m == [msg EXCEPT !.ok = ok, !.sock = S.websocket,
                             !.ts = IF ok THEN S.now ELSE NoTime,
                             !.schema_version = IF ok THEN 1 ELSE 0,
                             !.client_id = IF ok THEN S.clientId ELSE NoClientId]
            S1 == [S EXCEPT !.sendLog = Append(@, m)]
        IN IF ~ok
           THEN IF msg.type = "usage_report" THEN [S1 EXCEPT !.hist.heldBack = TRUE] ELSE S1
           ELSE IF msg.type = "hello"
           THEN [S1 EXCEPT !.sockets[S.websocket].hello =
                               IF msg.auth_token = "" THEN "empty" ELSE "token",
                           !.hist.rejected = IF @ = "yes" THEN "retried" ELSE @]
           ELSE IF msg.type = "usage_report"
           THEN [S1 EXCEPT
                   !.hist.sentTime = [d \in Domains |-> @[d] + ReportSeconds(msg.report, d)],
                   !.hist.sentInput =
                       [d \in Domains |-> AddInput(@[d], ReportInput(msg.report, d))],
                   !.hist.lastSentAt = S.now]
           ELSE S1
        : S \in {S0}, msg \in {msg0} })

\* ------------------------------------------------------------ time tracking
\* accumulatedTime[domain] = (accumulatedTime[domain] || 0) + elapsedSeconds
AddSeconds(S0, domain0, elapsedSeconds0) ==
    Value({
        [S EXCEPT !.timeTracking.accumulatedTime[domain] = @ + elapsedSeconds,
                  !.hist.timeEntries = @ \cup {domain},
                  !.hist.creditedTime[domain] = @ + elapsedSeconds]
        : S \in {S0}, domain \in {domain0}, elapsedSeconds \in {elapsedSeconds0} })

ElapsedSeconds(S) == (S.now - S.timeTracking.domainStartTime) \div TicksPerSecond

Tracking(S) ==
    S.timeTracking.currentDomain # NoDomain /\ S.timeTracking.domainStartTime # NoTime

OpenInterval(S0, domain0, start0) ==
    Value({
        [S EXCEPT !.timeTracking.currentDomain = domain,
                  !.timeTracking.domainStartTime = start]
        : S \in {S0}, domain \in {domain0}, start \in {start0} })

\* a faulty variant: the interval of the new domain starts where the old one started
recordTimeAndSwitchDomainKeepsStart(S0, newDomain0) ==
    Value({
        LET S1 == IF Tracking(S) /\ Active(S) /\ ElapsedSeconds(S) > 0
                  THEN AddSeconds(S, S.timeTracking.currentDomain, ElapsedSeconds(S))
                  ELSE S
        IN OpenInterval(S1, newDomain,
                        IF newDomain = NoDomain THEN NoTime
                        ELSE IF Tracking(S) THEN S.timeTracking.domainStartTime ELSE S.now)
        : S \in {S0}, newDomain \in {newDomain0} })

recordTimeAndSwitchDomain(S0, newDomain0) ==
    Value({
        LET S1 == IF Tracking(S) /\ Active(S) /\ ElapsedSeconds(S) > 0
                  THEN AddSeconds(S, S.timeTracking.currentDomain, ElapsedSeconds(S))
                  ELSE S
        IN OpenInterval(S1, newDomain, IF newDomain # NoDomain THEN S.now ELSE NoTime)
        : S \in {S0}, newDomain \in {newDomain0} })

\* a faulty variant: the entry of the domain is made even when no second has passed
pauseTimeTrackingMakesEmptyEntry(S0) ==
    Value({
        IF Tracking(S)
        THEN OpenInterval(AddSeconds(S, S.timeTracking.currentDomain, ElapsedSeconds(S)),
                          S.timeTracking.currentDomain, NoTime)
        ELSE S
        : S \in {S0} })

pauseTimeTracking(S0) ==
    Value({
        IF Tracking(S)
        THEN LET S1 == IF ElapsedSeconds(S) > 0
                       THEN AddSeconds(S, S.timeTracking.currentDomain, ElapsedSeconds(S))
                       ELSE S
             IN OpenInterval(S1, S.timeTracking.currentDomain, NoTime)
        ELSE S
        : S \in {S0} })

\* a faulty variant: the interval is started anew whenever a domain is held
resumeTimeTrackingRestarts(S0) ==
    Value({
        IF S.timeTracking.currentDomain # NoDomain
        THEN OpenInterval(S, S.timeTracking.currentDomain, S.now)
        ELSE S
        : S \in {S0} })

resumeTimeTracking(S0) ==
    Value({
        IF S.timeTracking.currentDomain # NoDomain /\ S.timeTracking.domainStartTime = NoTime
        THEN OpenInterval(S, S.timeTracking.currentDomain, S.now)
        ELSE S
        : S \in {S0} })


\* ------------------------------------------------------------ usage report
\* a faulty variant: the seconds are credited and the interval keeps its start
FlushIntervalKeepsStart(S0) ==
    Value({
        IF Tracking(S) /\ Active(S) /\ ElapsedSeconds(S) > 0
        THEN AddSeconds(S, S.timeTracking.currentDomain, ElapsedSeconds(S))
        ELSE S
        : S \in {S0} })

\* lines 415-429: close out the running interval and re-open it at now
FlushInterval(S0) ==
    Value({
        IF Tracking(S) /\ Active(S) /\ ElapsedSeconds(S) > 0
        THEN [AddSeconds(S, S.timeTracking.currentDomain, ElapsedSeconds(S))
                EXCEPT !.timeTracking.domainStartTime = S.now]
        ELSE S
        : S \in {S0} })

HasInput(i) ==
    i.keys # 0 \/ i.clicks # 0 \/ i.scrolls # 0 \/ i.mouseDistanceIn # 0

ReportEntry(d, seconds, input) ==
    [domain |-> d, seconds |-> seconds, keys |-> input.keys, clicks |-> input.clicks,
     scrolls |-> input.scrolls, mouse_distance_in |-> input.mouseDistanceIn]

\* a faulty variant: the second loop does not look at the seconds
BuildReportTwice(S0) ==
    Value({
        {ReportEntry(d, S.timeTracking.accumulatedTime[d], S.accumulatedInput[d]) :
            d \in {x \in Domains : S.timeTracking.accumulatedTime[x] > 0}}
        \cup
        {ReportEntry(d, 0, S.accumulatedInput[d]) :
            d \in {x \in Domains : HasInput(S.accumulatedInput[x])}}
        : S \in {S0} })

\* lines 431-461: the report list
BuildReport(S0) ==
    Value({
        {ReportEntry(d, S.timeTracking.accumulatedTime[d], S.accumulatedInput[d]) :
            d \in {x \in Domains : S.timeTracking.accumulatedTime[x] > 0}}
        \cup
        {ReportEntry(d, 0, S.accumulatedInput[d]) :
            d \in {x \in Domains : S.timeTracking.accumulatedTime[x] = 0
                                   /\ HasInput(S.accumulatedInput[x])}}
        : S \in {S0} })

\* a faulty variant: the accumulators are cleared whether or not the send succeeded
ClearAccumulatedAlways(S0, sent0) ==
    Value({
        [S EXCEPT !.timeTracking.accumulatedTime = [d \in Domains |-> 0],
                       !.hist.timeEntries = {},
                  !.accumulatedInput = [d \in Domains |-> ZeroInput],
                  !.timeTracking.lastReportTime = S.now]
        : S \in {S0}, sent \in {sent0} })

\* a faulty variant: what was sent stays in the accumulators
ClearAccumulatedNever(S0, sent0) ==
    Value({
        IF sent THEN [S EXCEPT !.timeTracking.lastReportTime = S.now] ELSE S
        : S \in {S0}, sent \in {sent0} })

\* a faulty variant: the period of the next report starts where this one did
ClearAccumulatedKeepsPeriod(S0, sent0) ==
    Value({
        IF sent
        THEN [S EXCEPT !.timeTracking.accumulatedTime = [d \in Domains |-> 0],
                       !.hist.timeEntries = {},
                       !.accumulatedInput = [d \in Domains |-> ZeroInput]]
        ELSE S
        : S \in {S0}, sent \in {sent0} })

\* lines 473-479: after a send that returned true
ClearAccumulated(S0, sent0) ==
    Value({
        IF sent
        THEN [S EXCEPT !.timeTracking.accumulatedTime = [d \in Domains |-> 0],
                       !.hist.timeEntries = {},
                       !.accumulatedInput = [d \in Domains |-> ZeroInput],
                       !.timeTracking.lastReportTime = S.now]
        ELSE S
        : S \in {S0}, sent \in {sent0} })

sendUsageReport(S0) ==
    Value({
        LET S1 == FlushInterval(S)
            report == BuildReport(S1)
        IN IF report # {}
           THEN ClearAccumulated(
                  sendMessage(S1, [BlankMsg EXCEPT !.type = "usage_report",
                                                   !.report = report,
                                                   !.period_start = S1.timeTracking.lastReportTime,
                                                   !.period_end = S1.now]),
                  SocketOpen(S1))
           ELSE S1
        : S \in {S0} })

\* ------------------------------------------------------------ timers
FreshId(timers) ==
    CHOOSE i \in 1..(Cardinality(timers) + 1) :
        /\ \A t \in timers : t.id # i
        /\ \A j \in 1..(i-1) : \E t \in timers : t.id = j

\* clearInterval(id), clearTimeout(id)
Clear(timers, id) == {t \in timers : t.id # id}

stopUsageReportTimer(S0) ==
    Value({
        IF S.usageReportTimer # Null
        THEN [S EXCEPT !.intervals = Clear(@, S.usageReportTimer),
                       !.usageReportTimer = Null]
        ELSE S
        : S \in {S0} })

\* a faulty variant: a timer that is running is not stopped first
startUsageReportTimerTwice(S0) ==
    Value({
        LET id == FreshId(S.intervals)
        IN [S EXCEPT !.intervals = @ \cup {[id |-> id,
                                            due |-> S.now + Ticks(USAGE_REPORT_INTERVAL_MS)]},
                     !.usageReportTimer = id]
        : S \in {S0} })

startUsageReportTimer(S0) ==
    Value({
        LET S1 == stopUsageReportTimer(S)
            id == FreshId(S1.intervals)
        IN [S1 EXCEPT !.intervals = @ \cup {[id |-> id,
                                             due |-> S.now + Ticks(USAGE_REPORT_INTERVAL_MS)]},
                      !.usageReportTimer = id]
        : S \in {S0} })

\* a faulty variant: no check for a timer that is already pending
scheduleReconnectAgain(S0) ==
    Value({
        IF ~S.config.enabled THEN S
        ELSE LET id == FreshId(S.timeouts)
             IN [S EXCEPT !.timeouts = @ \cup {[id |-> id,
                                                due |-> S.now + Ticks(RECONNECT_DELAY_MS)]},
                          !.reconnectTimer = id]
        : S \in {S0} })

scheduleReconnect(S0) ==
    Value({
        IF S.reconnectTimer # Null THEN S
        ELSE IF ~S.config.enabled THEN S
        ELSE LET id == FreshId(S.timeouts)
             IN [S EXCEPT !.timeouts = @ \cup {[id |-> id,
                                                due |-> S.now + Ticks(RECONNECT_DELAY_MS)]},
                          !.reconnectTimer = id]
        : S \in {S0} })

\* ------------------------------------------------------------ connection
FreeSocket == [state |-> "FREE", hello |-> "none", replied |-> FALSE]
SocketIds == 1..MaxSockets
\* a closed socket is garbage once connect() replaces the reference to it
FreeSlots(S) == {s \in SocketIds : S.sockets[s].state \in {"FREE", "CLOSED"}}
\* connect() can be modelled: it makes no socket, or a slot is left for the one it makes
HasFreeSlot(S) ==
    \/ FreeSlots(S) # {}
    \/ S.websocket # Null /\ S.sockets[S.websocket].state \in {"CONNECTING", "OPEN"}

\* a faulty variant: a constructor that throws is not retried
connectOnce(S0, ctorOk0) ==
    Value({
        LET S1 == [S EXCEPT !.hist.connects = @ + 1] IN
        IF ~S1.config.enabled THEN S1
        ELSE IF S1.websocket # Null /\ S1.sockets[S1.websocket].state \in {"CONNECTING", "OPEN"}
        THEN S1
        ELSE IF ctorOk
        THEN LET s == CHOOSE x \in FreeSlots(S1) : \A y \in FreeSlots(S1) : x <= y
             IN [S1 EXCEPT !.websocket = s,
                          !.sockets[s] = [FreeSocket EXCEPT !.state = "CONNECTING"]]
        ELSE [S1 EXCEPT !.hist.threw = TRUE]
        : S \in {S0}, ctorOk \in {ctorOk0} })

\* new WebSocket(...): ctorOk is whether the constructor returns
connect(S0, ctorOk0) ==
    Value({
        LET S1 == [S EXCEPT !.hist.connects = @ + 1] IN
        IF ~S1.config.enabled THEN S1
        ELSE IF S1.websocket # Null /\ S1.sockets[S1.websocket].state \in {"CONNECTING", "OPEN"}
        THEN S1
        ELSE IF ctorOk
        THEN LET s == CHOOSE x \in FreeSlots(S1) : \A y \in FreeSlots(S1) : x <= y
             IN [S1 EXCEPT !.websocket = s,
                          !.sockets[s] = [FreeSocket EXCEPT !.state = "CONNECTING"]]
        ELSE scheduleReconnect([S1 EXCEPT !.hist.threw = TRUE])
        : S \in {S0}, ctorOk \in {ctorOk0} })

sendGoodbye(S0) ==
    Value({
        sendMessage(S, [BlankMsg EXCEPT !.type = "goodbye"])
        : S \in {S0} })

\* websocket.close()
CloseSocket(S0, s0) ==
    Value({
        IF S.sockets[s].state \in {"CONNECTING", "OPEN"}
        THEN [S EXCEPT !.sockets[s].state = "CLOSING"]
        ELSE S
        : S \in {S0}, s \in {s0} })

\* a faulty variant: the socket is closed before the goodbye is sent
disconnectThenGoodbye(S0) ==
    Value({
        LET S1 == sendUsageReport([S EXCEPT !.hist.disconnected = TRUE])
            S2 == IF S1.websocket # Null
                  THEN [sendGoodbye(CloseSocket(S1, S1.websocket)) EXCEPT !.websocket = Null]
                  ELSE S1
            S3 == stopUsageReportTimer(S2)
        IN IF S3.reconnectTimer # Null
           THEN [S3 EXCEPT !.timeouts = Clear(@, S3.reconnectTimer), !.reconnectTimer = Null]
           ELSE S3
        : S \in {S0} })

disconnect(S0) ==
    Value({
        LET S1 == sendUsageReport([S EXCEPT !.hist.disconnected = TRUE])
            S2 == IF S1.websocket # Null
                  THEN [CloseSocket(sendGoodbye(S1), S1.websocket) EXCEPT !.websocket = Null]
                  ELSE S1
            S3 == stopUsageReportTimer(S2)
        IN IF S3.reconnectTimer # Null
           THEN [S3 EXCEPT !.timeouts = Clear(@, S3.reconnectTimer), !.reconnectTimer = Null]
           ELSE S3
        : S \in {S0} })


\* ------------------------------------------------------------ metadata
METADATA_MAX_AGE_DAYS == 7

\* a faulty variant: a record of exactly seven days counts as expired
needsMetadataUpdateAtSevenDays(S0, domain0) ==
    Value({
        IF domain = NoDomain THEN FALSE
        ELSE IF S.metadataSentTimes[domain] = NoTime THEN TRUE
        ELSE (S.now - S.metadataSentTimes[domain])
                >= Ticks(METADATA_MAX_AGE_DAYS * 24 * 60 * 60 * 1000)
        : S \in {S0}, domain \in {domain0} })

needsMetadataUpdate(S0, domain0) ==
    Value({
        IF domain = NoDomain THEN FALSE
        ELSE IF S.metadataSentTimes[domain] = NoTime THEN TRUE
        ELSE (S.now - S.metadataSentTimes[domain])
                > Ticks(METADATA_MAX_AGE_DAYS * 24 * 60 * 60 * 1000)
        : S \in {S0}, domain \in {domain0} })

\* chrome.storage.local.set / remove: the write, and the onChanged event it raises
\* when a stored value changed
StorageWrite(S0, newStorage0) ==
    Value({
        IF newStorage = S.storage THEN S
        ELSE Spawn([S EXCEPT !.storage = newStorage], "storageEvent")
        : S \in {S0}, newStorage \in {newStorage0} })

\* a faulty variant: the time is recorded before the message is tried
sendFaviconUrlRecordsFirst(S0, domain0) ==
    Value({
        IF domain = NoDomain THEN S
        ELSE LET S1 == StorageWrite([S EXCEPT !.metadataSentTimes[domain] = S.now],
                                    [S.storage EXCEPT !.metadataSentTimes[domain] = S.now])
             IN IF SocketOpen(S1)
                THEN sendMessage(S1, [BlankMsg EXCEPT !.type = "metadata_update",
                                                      !.domain = domain])
                ELSE S1
        : S \in {S0}, domain \in {domain0} })

sendFaviconUrl(S0, domain0) ==
    Value({
        IF domain = NoDomain \/ ~SocketOpen(S) THEN S
        ELSE LET sent == SocketOpen(S)
                 S1 == sendMessage(S, [BlankMsg EXCEPT !.type = "metadata_update",
                                                       !.domain = domain])
             IN IF sent
                THEN StorageWrite([S1 EXCEPT !.metadataSentTimes[domain] = S.now],
                                  [S1.storage EXCEPT !.metadataSentTimes[domain] = S.now])
                ELSE S1
        : S \in {S0}, domain \in {domain0} })

\* ------------------------------------------------------------ tabs
\* chrome.tabs.query({active: true, lastFocusedWindow: true}): window 1 is a normal
\* window showing tab 1, window 2 a private window showing tab 2, window 3 has no tab
QueryTab(S) == IF S.browser.win = 3 THEN Null ELSE S.browser.win
TabUrl(S, t) == IF t = 1 THEN S.browser.url ELSE URL_SECRET

\* a faulty variant: a private tab leaves the displayed domain as it was
updateCurrentTabKeepsActiveDomain(S0) ==
    Value({
        LET tab == QueryTab(S) IN
        IF tab = Null
        THEN [recordTimeAndSwitchDomain(S, NoDomain)
                EXCEPT !.currentState.activeTabId = Null,
                       !.currentState.activeDomain = NoDomain]
        ELSE IF Incognito(tab)
        THEN [recordTimeAndSwitchDomain(S, NoDomain) EXCEPT !.currentState.activeTabId = Null]
        ELSE LET newDomain == DomainOf[TabUrl(S, tab)]
                 S1 == [S EXCEPT !.currentState.activeTabId = tab,
                                 !.currentState.activeDomain = newDomain]
             IN IF newDomain # S.timeTracking.currentDomain
                THEN LET S2 == recordTimeAndSwitchDomain(S1, newDomain)
                     IN IF newDomain # NoDomain /\ needsMetadataUpdate(S2, newDomain)
                        THEN sendFaviconUrl(S2, newDomain)
                        ELSE S2
                ELSE S1
        : S \in {S0} })

\* updateCurrentTab() from the point where the tab query has answered
updateCurrentTab(S0) ==
    Value({
        LET tab == QueryTab(S) IN
        IF tab = Null \/ Incognito(tab)
        THEN [recordTimeAndSwitchDomain(S, NoDomain)
                EXCEPT !.currentState.activeTabId = Null,
                       !.currentState.activeDomain = NoDomain]
        ELSE LET newDomain == DomainOf[TabUrl(S, tab)]
                 S1 == [S EXCEPT !.currentState.activeTabId = tab,
                                 !.currentState.activeDomain = newDomain]
             IN IF newDomain # S.timeTracking.currentDomain
                THEN LET S2 == recordTimeAndSwitchDomain(S1, newDomain)
                     IN IF newDomain # NoDomain /\ needsMetadataUpdate(S2, newDomain)
                        THEN sendFaviconUrl(S2, newDomain)
                        ELSE S2
                ELSE S1
        : S \in {S0} })

\* ------------------------------------------------------------ inbound messages
\* the token the peer issues when it approves a pairing
AuthTokens == {"t2"}

onAuthenticated(S0) ==
    Value({
        startUsageReportTimer(Spawn(S, "updateCurrentTab"))
        : S \in {S0} })

\* case 'pairing_approved' up to onAuthenticated()
onPairingApproved(S0, msg0) ==
    Value({
        StorageWrite([S EXCEPT !.config.authToken = msg.auth_token,
                               !.hist.authFailed = FALSE],
                     [S.storage EXCEPT !.authToken = msg.auth_token])
        : S \in {S0}, msg \in {msg0} })

\* a faulty variant: the token is cleared in memory only
onAuthFailedKeepsStored(S0) ==
    Value({
        scheduleReconnect(disconnect(
          [S EXCEPT !.config.authToken = "", !.hist.authFailed = TRUE]))
        : S \in {S0} })

\* error_code === 'AUTH_FAILED'
onAuthFailed(S0) ==
    Value({
        scheduleReconnect(disconnect(
          StorageWrite([S EXCEPT !.config.authToken = "", !.hist.authFailed = TRUE],
                       [S.storage EXCEPT !.authToken = ""])))
        : S \in {S0} })

\* a faulty variant: the connection is closed and no reconnect is scheduled
onPairingRejectedForGood(S0) ==
    Value({
        disconnect([S EXCEPT !.hist.rejected = "yes"])
        : S \in {S0} })

\* error_code === 'PAIRING_REJECTED'
onPairingRejected(S0) ==
    Value({
        scheduleReconnect(disconnect([S EXCEPT !.hist.rejected = "yes"]))
        : S \in {S0} })

\* what a message is to the switch: its error code, its type, or text that
\* JSON.parse rejects
Kind(msg) ==
    IF ~msg.parses THEN "malformed"
    ELSE IF msg.type = "error" THEN msg.error_code ELSE msg.type

\* a faulty variant: any error ends the connection
handleMessageAnyError(S0, msg0) ==
    Value({
        IF ~msg.parses THEN S
        ELSE CASE msg.type = "hello_ack" -> onAuthenticated(S)
               [] msg.type = "pairing_approved" -> onAuthenticated(onPairingApproved(S, msg))
               [] msg.type = "error" /\ msg.error_code = "AUTH_FAILED" -> onAuthFailed(S)
               [] msg.type = "error" /\ msg.error_code # "AUTH_FAILED" -> onPairingRejected(S)
               [] OTHER -> S
        : S \in {[S0 EXCEPT !.hist.received = Kind(msg0)]}, msg \in {msg0} })

handleMessage(S0, msg0) ==
    Value({
        IF ~msg.parses THEN S
        ELSE CASE msg.type = "hello_ack" -> onAuthenticated(S)
               [] msg.type = "pairing_approved" -> onAuthenticated(onPairingApproved(S, msg))
               [] msg.type = "error" /\ msg.error_code = "AUTH_FAILED" -> onAuthFailed(S)
               [] msg.type = "error" /\ msg.error_code = "PAIRING_REJECTED" -> onPairingRejected(S)
               [] OTHER -> S
        : S \in {[S0 EXCEPT !.hist.received = Kind(msg0)]}, msg \in {msg0} })

\* sendHello() from the point where getBrowserInfo() has answered
sendHello(S0) ==
    Value({
        sendMessage(S, [BlankMsg EXCEPT !.type = "hello", !.auth_token = S.config.authToken])
        : S \in {S0} })

\* the id that initializeClientId() reads from storage or, on the first run, generates
CLIENT_ID == "chromium-1"

initializeClientId(S0) ==
    Value({
        [S EXCEPT !.clientId = CLIENT_ID]
        : S \in {S0} })

\* loadConfig() from the point where the storage read has answered
loadConfig(S0) ==
    Value({
        [S EXCEPT !.config.authToken = S.storage.authToken,
                  !.config.enabled = S.storage.enabled]
        : S \in {S0} })

\* checkIdleState() from the point where chrome.idle.queryState has answered
checkIdleState(S0) ==
    Value({
        LET wasIdle == S.currentState.isIdle
            S1 == [S EXCEPT !.currentState.isIdle = S.browser.idle]
        IN IF S1.currentState.isIdle /\ ~wasIdle THEN pauseTimeTracking(S1)
           ELSE IF ~S1.currentState.isIdle /\ wasIdle /\ S1.currentState.isFocused
           THEN resumeTimeTracking(S1)
           ELSE S1
        : S \in {S0} })


\* ------------------------------------------------------------ content scripts
\* the content scripts that are shipped, and the counters each one keeps
Scripts == {"chromium", "unnamed"}
ScriptFields(k) ==
    IF k = "chromium" THEN {"keys", "clicks", "scrollPixels", "mouseDistanceIn"}
    ELSE IF k = "unnamed" THEN {"keys", "clicks", "scrolls", "mouseDistanceIn"}
    ELSE {}
ZeroStats(k) == [f \in ScriptFields(k) |-> 0]
NoPos == <<>>

\* the script as it is injected into a page
LoadedScript(k) ==
    [script |-> k, inputStats |-> ZeroStats(k), lastMousePos |-> NoPos,
     rafPending |-> FALSE, pendingMouseEvent |-> NoPos, outbox |-> <<>>, events |-> 0]

\* Math.sqrt of a square number
ISqrt(n) == CHOOSE r \in 0..n : r * r = n
\* Math.sqrt(dx * dx + dy * dy) / dpi, for positions given in inches
Distance(p, q) == ISqrt((p[1] - q[1]) * (p[1] - q[1]) + (p[2] - q[2]) * (p[2] - q[2]))

\* keydown and mousedown
contentCount(S0, field0) ==
    Value({
        [S EXCEPT !.content.inputStats[field] = @ + 1]
        : S \in {S0}, field \in {field0} })

PIXELS_PER_LINE == 16
\* wheel: the chromium script adds the distance in pixels, the other one counts the event
contentWheel(S0, e0) ==
    Value({
        IF S.content.script = "chromium"
        THEN LET abs == IF e.deltaY < 0 THEN 0 - e.deltaY ELSE e.deltaY
                 pixels == IF e.deltaMode = 1 THEN abs * PIXELS_PER_LINE
                           ELSE IF e.deltaMode = 2 THEN abs * e.innerHeight
                           ELSE abs
             IN [S EXCEPT !.content.inputStats["scrollPixels"] = @ + pixels]
        ELSE [S EXCEPT !.content.inputStats["scrolls"] = @ + 1]
        : S \in {S0}, e \in {e0} })

\* the callback of requestAnimationFrame in the throttled script
contentFrame(S0) ==
    Value({
        LET c == S.content
            S1 == IF c.pendingMouseEvent # NoPos /\ c.lastMousePos # NoPos
                  THEN [S EXCEPT !.content.inputStats["mouseDistanceIn"] =
                                     @ + Distance(c.pendingMouseEvent, c.lastMousePos)]
                  ELSE S
            S2 == [S1 EXCEPT !.content.rafPending = FALSE]
        IN IF c.pendingMouseEvent # NoPos
           THEN [S2 EXCEPT !.content.lastMousePos = c.pendingMouseEvent]
           ELSE S2
        : S \in {S0} })

\* mousemove: the chromium script measures at once, the other one at the next frame
contentMousemove(S0, pos0) ==
    Value({
        IF S.content.script = "chromium"
        THEN LET S1 == IF S.content.lastMousePos # NoPos
                       THEN [S EXCEPT !.content.inputStats["mouseDistanceIn"] =
                                          @ + Distance(pos, S.content.lastMousePos)]
                       ELSE S
             IN [S1 EXCEPT !.content.lastMousePos = pos]
        ELSE [S EXCEPT !.content.pendingMouseEvent = pos, !.content.rafPending = TRUE]
        : S \in {S0}, pos \in {pos0} })

\* the callback of setInterval(..., 5000): the message carries the counters under the
\* names the script gives them; chrome.runtime.sendMessage may throw
contentReport(S0, sendOk0) ==
    Value({
        IF \E f \in DOMAIN S.content.inputStats : S.content.inputStats[f] # 0
        THEN [S EXCEPT !.content.outbox = IF sendOk THEN Append(@, S.content.inputStats) ELSE @,
                       !.content.inputStats = ZeroStats(S.content.script)]
        ELSE S
        : S \in {S0}, sendOk \in {sendOk0} })

\* ------------------------------------------------------------ initial state
NoTimes == [d \in Domains |-> NoTime]

\* The worker is loaded; the store holds one of the given metadata records, one of
\* the given tokens and one of the given values of the enabled switch, and the
\* browser window is focused or not as given.
Start(records, urls, scripts, focus, tokens, switches) ==
    /\ now = 0
    /\ browser \in [win : {1}, focused : focus, url : {URL_A}, idle : {FALSE}]
    /\ storage \in [authToken : tokens, enabled : switches, metadataSentTimes : records]
    /\ config = [authToken |-> "", enabled |-> TRUE]
    /\ clientId = NoClientId
    /\ websocket = Null
    /\ usageReportTimer = Null
    /\ reconnectTimer = Null
    /\ currentState = [activeTabId |-> Null, activeDomain |-> NoDomain,
                       isFocused |-> FALSE, isIdle |-> FALSE]
    /\ timeTracking = [currentDomain |-> NoDomain, domainStartTime |-> NoTime,
                       accumulatedTime |-> [d \in Domains |-> 0], lastReportTime |-> 0]
    /\ accumulatedInput = [d \in Domains |-> ZeroInput]
    /\ metadataSentTimes = NoTimes
    /\ sockets = [s \in SocketIds |-> FreeSocket]
    /\ intervals = {}
    /\ timeouts = {}
    /\ tasks = [k \in TaskKinds |-> 0]
    /\ probe = NoProbe
    /\ lookup \in [url : urls, done : {FALSE}, background : {NoDomain}, popup : {NoDomain}]
    /\ content \in {LoadedScript(k) : k \in scripts}
    /\ sendLog = <<>>
    /\ hist = [creditedTime |-> [d \in Domains |-> 0],
               sentTime |-> [d \in Domains |-> 0],
               creditedInput |-> [d \in Domains |-> ZeroInput],
               sentInput |-> [d \in Domains |-> ZeroInput],
               activeTicks |-> 0, fineSteps |-> 0, events |-> 0, inputMsgs |-> 0,
               connects |-> 0, threw |-> FALSE, heldBack |-> FALSE, authFailed |-> FALSE,
               received |-> "none", sender |-> Null, rejected |-> "no", disconnected |-> FALSE,
               lastSentAt |-> 0, awakeTicks |-> 0, idleTicks |-> 0,
               initialized |-> FALSE, status |-> NoStatus, timeEntries |-> {}]
    /\ ev = "load"

\* a first run of the extension: nothing was sent for any domain yet
Init == Start({NoTimes}, {<<>>}, {"none"}, BOOLEAN, {"", "t1"}, BOOLEAN)

\* the same, for an extension that was paired before (a token is stored), is
\* enabled and starts in a focused window
InitPaired == Start({NoTimes}, {<<>>}, {"none"}, {TRUE}, {"t1"}, {TRUE})

\* the same, for an extension that was never paired (no token is stored)
InitUnpaired == Start({NoTimes}, {<<>>}, {"none"}, {TRUE}, {""}, {TRUE})

\* a paired and enabled extension that starts in a focused or an unfocused window
InitAnyFocus == Start({NoTimes}, {<<>>}, {"none"}, BOOLEAN, {"t1"}, {TRUE})

Running == ev # "beforeunload"

\* one more event from outside the worker
MoreEvents == hist.events < MaxEvents
Event(S0) ==
    Value({
        [S EXCEPT !.hist.events = @ + 1]
        : S \in {S0} })
\* new WebSocket(...) throwing is such an event
Ctor(S0, ctorOk0) ==
    Value({
        IF ctorOk THEN S ELSE Event(S)
        : S \in {S0}, ctorOk \in {ctorOk0} })

\* ------------------------------------------------------------ startup
\* initializeClientId() from the point where its storage read, the first call the
\* worker makes, has answered
ClientIdReady ==
    /\ Running /\ clientId = NoClientId
    /\ Commit(initializeClientId(Cur), "initializeClientId")

\* lines 876-900, from the storage reads to the call of updateCurrentTab()
Initialize(ctorOk) ==
    /\ Running /\ ~hist.initialized
    /\ ctorOk \/ MoreEvents
    /\ clientId # NoClientId
    /\ LET S1 == [loadConfig(Ctor(Cur, ctorOk))
                     EXCEPT !.metadataSentTimes = storage.metadataSentTimes,
                                         !.hist.initialized = TRUE]
           S2 == IF S1.config.enabled THEN connect(S1, ctorOk) ELSE S1
           S3 == [S2 EXCEPT !.currentState.isFocused =
                                browser.focused /\ browser.win # 3]
       IN Commit(Spawn(S3, "updateCurrentTab"), "initialize")

\* ------------------------------------------------------------ the clock
ProbeTimers == IF probe.timer = NoTime THEN {} ELSE {[id |-> 0, due |-> probe.timer]}
Timers == intervals \cup timeouts \cup ProbeTimers
NextDue == IF Timers = {} THEN MaxTime
           ELSE CHOOSE d \in {t.due : t \in Timers} : \A t \in Timers : d <= t.due

\* time passes; no timer is left waiting past its due time, and the browser
\* answers every pending call (tab query, idle query, storage read) within the tick
AdvanceBy(d, fine) ==
    /\ Running
    /\ d > 0
    /\ now + d <= MaxTime
    /\ now + d <= NextDue
    /\ \A k \in TaskKinds : tasks[k] = 0
    /\ Commit([Cur EXCEPT !.now = now + d,
                          !.hist.activeTicks = @ + (IF Active(Cur) THEN d ELSE 0),
                          !.hist.awakeTicks = @ + (IF browser.idle THEN 0 ELSE d),
                          !.hist.idleTicks = IF browser.idle THEN @ + d ELSE 0,
                          !.hist.fineSteps = @ + fine],
              "advance")

AdvanceFine == hist.fineSteps < MaxFineSteps /\ AdvanceBy(1, 1)

\* to the next timer or, when none is set, by the report interval
AdvanceCoarse ==
    AdvanceBy(IF Timers = {} THEN Ticks(USAGE_REPORT_INTERVAL_MS) ELSE NextDue - now, 0)


\* ------------------------------------------------------------ browser events
\* chrome.windows.onFocusChanged: w = 0 is WINDOW_ID_NONE
FocusChanged(w) ==
    /\ Running /\ MoreEvents
    /\ IF w = 0 THEN browser.focused ELSE ~browser.focused \/ browser.win # w
    /\ tasks["focusRegained"] < MaxInFlight
    /\ LET wasFocused == currentState.isFocused
           S1 == [Event(Cur) EXCEPT !.browser.focused = (w # 0),
                             !.browser.win = IF w = 0 THEN @ ELSE w,
                             !.currentState.isFocused = (w # 0)]
       IN Commit(IF ~S1.currentState.isFocused /\ wasFocused THEN pauseTimeTracking(S1)
                 ELSE IF S1.currentState.isFocused /\ ~wasFocused
                 THEN Spawn(S1, "focusRegained")
                 ELSE S1,
                 "onFocusChanged")

\* a faulty variant: tracking is resumed whether or not the user is idle
FocusRegainedDoneResumesIdle ==
    /\ Running
    /\ tasks["focusRegained"] > 0
    /\ Commit(resumeTimeTracking(updateCurrentTab([Cur EXCEPT !.tasks["focusRegained"] = @ - 1])),
              "focusRegained")

\* ... after its await updateCurrentTab()
FocusRegainedDone ==
    /\ Running
    /\ tasks["focusRegained"] > 0
    /\ LET S1 == updateCurrentTab([Cur EXCEPT !.tasks["focusRegained"] = @ - 1])
       IN Commit(IF ~S1.currentState.isIdle THEN resumeTimeTracking(S1) ELSE S1,
                 "focusRegained")

\* chrome.tabs.onActivated: another tab of window 1, showing url, becomes its active tab
TabActivated(url) ==
    /\ Running /\ MoreEvents
    /\ browser.win = 1
    /\ url # browser.url
    /\ tasks["updateCurrentTab"] < MaxInFlight
    /\ Commit(Spawn([Event(Cur) EXCEPT !.browser.url = url], "updateCurrentTab"), "onActivated")

\* chrome.tabs.onUpdated: tab 1 navigates to url
TabUpdated(url) ==
    /\ Running /\ MoreEvents
    /\ url # browser.url
    /\ tasks["updateCurrentTab"] < MaxInFlight
    /\ LET S1 == [Event(Cur) EXCEPT !.browser.url = url]
       IN Commit(IF currentState.activeTabId = 1 THEN Spawn(S1, "updateCurrentTab") ELSE S1,
                 "onUpdated")

\* the continuation of an updateCurrentTab() that nothing awaits
UpdateCurrentTabDone ==
    /\ Running
    /\ tasks["updateCurrentTab"] > 0
    /\ Commit(updateCurrentTab([Cur EXCEPT !.tasks["updateCurrentTab"] = @ - 1]),
              "updateCurrentTab")

\* the platform's idle state changes; chrome.idle.onStateChanged tells the worker,
\* unless the push is missed
IdleChanged(delivered) ==
    /\ Running /\ MoreEvents
    /\ LET wasIdle == currentState.isIdle
           S0 == [Event(Cur) EXCEPT !.browser.idle = ~@]
           S1 == [S0 EXCEPT !.currentState.isIdle = S0.browser.idle]
       IN IF delivered
          THEN Commit(IF S1.currentState.isIdle /\ ~wasIdle THEN pauseTimeTracking(S1)
                      ELSE IF ~S1.currentState.isIdle /\ wasIdle /\ S1.currentState.isFocused
                      THEN resumeTimeTracking(S1)
                      ELSE S1,
                      "onStateChanged")
          ELSE Commit(S0, "idleMissed")

IdlePollDone ==
    /\ Running
    /\ tasks["checkIdleState"] > 0
    /\ Commit(checkIdleState([Cur EXCEPT !.tasks["checkIdleState"] = @ - 1]),
              "checkIdleState")

\* chrome.runtime.onMessage, type inputStats, from the content script of tab t
InputDeltas ==
    {[keys |-> 1, clicks |-> 2, scrolls |-> 1, mouseDistanceIn |-> 3]}

\* a faulty variant: input is counted whether or not the browser is focused and active
recordInputAlways(S0, domain0, message0) ==
    Value({
        IF domain # NoDomain
        THEN [S EXCEPT !.accumulatedInput[domain] = AddInput(@, Counts(message)),
                       !.hist.creditedInput[domain] = AddInput(@, Counts(message))]
        ELSE S
        : S \in {S0}, domain \in {domain0}, message \in {message0} })

recordInput(S0, domain0, message0) ==
    Value({
        IF domain # NoDomain /\ Active(S)
        THEN [S EXCEPT !.accumulatedInput[domain] = AddInput(@, Counts(message)),
                       !.hist.creditedInput[domain] = AddInput(@, Counts(message))]
        ELSE S
        : S \in {S0}, domain \in {domain0}, message \in {message0} })

InputStats(t, message) ==
    /\ Running /\ MoreEvents
    /\ hist.inputMsgs < MaxInputMsgs
    /\ Commit(recordInput([Event(Cur) EXCEPT !.hist.inputMsgs = @ + 1, !.hist.sender = t],
                          DomainOf[TabUrl(Cur, t)], message),
              "inputStats")

\* ------------------------------------------------------------ the content script's events
\* the events of the page in tab 1 that its content script handles
MaxContentEvents == 3
WheelEvents == {[deltaY |-> 0 - 3, deltaMode |-> 0, innerHeight |-> 600],
                [deltaY |-> 1, deltaMode |-> 1, innerHeight |-> 600],
                [deltaY |-> 1, deltaMode |-> 2, innerHeight |-> 600]}
MousePositions == {<<0, 0>>, <<3, 4>>}
MoreContentEvents == content.script \in Scripts /\ content.events < MaxContentEvents
ContentEvent(S0) ==
    Value({
        [S EXCEPT !.content.events = @ + 1]
        : S \in {S0} })

ContentKeydown ==
    /\ MoreContentEvents
    /\ Commit(contentCount(ContentEvent(Cur), "keys"), "keydown")

ContentMousedown ==
    /\ MoreContentEvents
    /\ Commit(contentCount(ContentEvent(Cur), "clicks"), "mousedown")

ContentWheel(e) ==
    /\ MoreContentEvents
    /\ Commit(contentWheel(ContentEvent(Cur), e), "wheel")

ContentMousemove(pos) ==
    /\ MoreContentEvents
    /\ Commit(contentMousemove(ContentEvent(Cur), pos), "mousemove")

ContentFrame ==
    /\ content.rafPending
    /\ Commit(contentFrame(Cur), "frame")

\* the 5 s interval of the content script fires
ContentReport(sendOk) ==
    /\ content.script \in Scripts
    /\ content.outbox = <<>>
    /\ \E f \in DOMAIN content.inputStats : content.inputStats[f] # 0
    /\ Commit(contentReport(Cur, sendOk), "contentReport")

\* chrome.runtime.onMessage: the message of the content script of tab 1 arrives
ContentDelivered ==
    /\ Running
    /\ content.outbox # <<>>
    /\ Commit(recordInput([Cur EXCEPT !.content.outbox = Tail(@), !.hist.sender = 1],
                          DomainOf[TabUrl(Cur, 1)], Head(content.outbox)),
              "inputStats")

\* ------------------------------------------------------------ storage events
\* something outside the worker writes the enabled key
StorageSetEnabled(b) ==
    /\ Running /\ MoreEvents
    /\ b # storage.enabled
    /\ tasks["storageEvent"] < MaxInFlight
    /\ Commit(StorageWrite(Event(Cur), [storage EXCEPT !.enabled = b]), "storageSet")

\* chrome.storage.onChanged up to its await loadConfig()
StorageChanged ==
    /\ Running
    /\ tasks["storageEvent"] > 0
    /\ Commit(Spawn([Cur EXCEPT !.tasks["storageEvent"] = @ - 1],
                    IF config.enabled THEN "storageWasEnabled" ELSE "storageWasDisabled"),
              "onChanged")

\* ... and from there on
ConfigReloaded(wasEnabled, ctorOk) ==
    /\ Running
    /\ LET kind == IF wasEnabled THEN "storageWasEnabled" ELSE "storageWasDisabled" IN
       /\ tasks[kind] > 0
       /\ clientId # NoClientId  \* storage reads are answered in the order they were made
       /\ HasFreeSlot(Cur)
       /\ ctorOk \/ MoreEvents
       /\ LET S1 == loadConfig([Ctor(Cur, ctorOk) EXCEPT !.tasks[kind] = @ - 1])
          IN Commit(IF S1.config.enabled /\ ~wasEnabled THEN connect(S1, ctorOk)
                    ELSE IF ~S1.config.enabled /\ wasEnabled THEN disconnect(S1)
                    ELSE S1,
                    "configReloaded")


\* ------------------------------------------------------------ timers firing
\* the reconnect timeout t fires
ReconnectTimerFires(t, ctorOk) ==
    /\ Running
    /\ t \in timeouts /\ t.due <= now
    /\ HasFreeSlot(Cur)
    /\ ctorOk \/ MoreEvents
    /\ Commit(connect([Ctor(Cur, ctorOk) EXCEPT !.timeouts = @ \ {t},
                                                !.reconnectTimer = Null], ctorOk),
              "reconnectTimer")

\* the report interval t fires: checkIdleState() is started, not awaited
ReportTimerFires(t) ==
    /\ Running
    /\ t \in intervals /\ t.due <= now
    /\ LET S1 == [Cur EXCEPT !.intervals =
                     (@ \ {t}) \cup {[t EXCEPT !.due = @ + Ticks(USAGE_REPORT_INTERVAL_MS)]}]
       IN Commit(sendUsageReport(Spawn(S1, "checkIdleState")), "reportTimer")

\* ------------------------------------------------------------ socket events
\* websocket.onopen up to its await getBrowserInfo()
SocketOpens(s) ==
    /\ Running
    /\ sockets[s].state = "CONNECTING"
    /\ Commit(Spawn([Cur EXCEPT !.sockets[s].state = "OPEN"], "sendHello"), "onopen")

HelloReady ==
    /\ Running
    /\ tasks["sendHello"] > 0
    /\ Commit(sendHello([Cur EXCEPT !.tasks["sendHello"] = @ - 1]), "sendHello")

\* a faulty variant: the report timer is left running
oncloseKeepsTimer(S0) ==
    Value({
        scheduleReconnect(S)
        : S \in {S0} })

\* websocket.onclose: the connection failed, the peer went away, or close() completed
onclose(S0) ==
    Value({
        scheduleReconnect(stopUsageReportTimer(S))
        : S \in {S0} })

SocketCloses(s) ==
    /\ Running
    /\ sockets[s].state \in {"CONNECTING", "OPEN", "CLOSING"}
    /\ sockets[s].state = "CLOSING" \/ MoreEvents
    /\ Commit(onclose([(IF sockets[s].state = "CLOSING" THEN Cur ELSE Event(Cur))
                          EXCEPT !.sockets[s].state = "CLOSED"]),
              "onclose")

\* What the peer may answer to the hello it saw on a socket (README, Authentication
\* Flow), and what it may send at any time.
PeerReplies(hello) ==
    IF hello = "token"
    THEN {[type |-> "hello_ack", error_code |-> "", auth_token |-> "", parses |-> TRUE],
          [type |-> "error", error_code |-> "AUTH_FAILED", auth_token |-> "", parses |-> TRUE]}
    ELSE IF hello = "empty"
    THEN {[type |-> "pairing_approved", error_code |-> "", auth_token |-> t, parses |-> TRUE] :
              t \in AuthTokens}
         \cup {[type |-> "error", error_code |-> "PAIRING_REJECTED", auth_token |-> "", parses |-> TRUE]}
    ELSE {}

PeerOther ==
    {[type |-> "error", error_code |-> "RATE_LIMITED", auth_token |-> "", parses |-> TRUE],
     [type |-> "unknown", error_code |-> "", auth_token |-> "", parses |-> TRUE],
     [type |-> "", error_code |-> "", auth_token |-> "", parses |-> FALSE]}

\* websocket.onmessage: the peer's answer to the hello
PeerAnswers(s, msg) ==
    /\ Running /\ MoreEvents
    /\ sockets[s].state = "OPEN" /\ ~sockets[s].replied
    /\ msg \in PeerReplies(sockets[s].hello)
    /\ Commit(handleMessage([Event(Cur) EXCEPT !.sockets[s].replied = TRUE], msg), "onmessage")

\* websocket.onmessage: the peer sends its hello_ack or pairing_approved once more
PeerRepeats(s, msg) ==
    /\ Running /\ MoreEvents
    /\ sockets[s].state = "OPEN" /\ sockets[s].replied
    /\ msg \in PeerReplies(sockets[s].hello) /\ msg.type # "error"
    /\ Commit(handleMessage(Event(Cur), msg), "onmessageAgain")

\* websocket.onmessage: a message that is no answer to a hello
PeerSendsOther(s, msg) ==
    /\ Running /\ MoreEvents
    /\ sockets[s].state = "OPEN"
    /\ msg \in PeerOther
    /\ Commit(handleMessage(Event(Cur), msg), "onmessageOther")

\* ------------------------------------------------------------ requests of the popup and the options page
\* a && b of JavaScript where a is a reference: null when a is null
RefAnd(ref, b) == IF ref = Null THEN "null" ELSE IF b THEN "true" ELSE "false"
Truthy(v) == v = "true"

\* a faulty variant: the answer tells of the socket, and the socket is dropped
getStatusDropsSocket(S0) ==
    Value({
        LET isConnected == RefAnd(S.websocket, SocketOpen(S))
            isConnecting == RefAnd(S.websocket, S.websocket # Null
                                     /\ S.sockets[S.websocket].state = "CONNECTING")
        IN [S EXCEPT !.websocket = Null,
                     !.hist.status =
                         [connected |-> isConnected, connecting |-> isConnecting,
                          pendingPairing |-> "false",
                          currentDomain |-> S.currentState.activeDomain,
                          reason |-> IF ~Truthy(isConnected) /\ ~Truthy(isConnecting)
                                     THEN "app_not_running" ELSE "null"]]
        : S \in {S0} })

\* message.type === 'getStatus'
getStatus(S0) ==
    Value({
        LET isConnected == RefAnd(S.websocket, SocketOpen(S))
            isConnecting == RefAnd(S.websocket, S.websocket # Null
                                     /\ S.sockets[S.websocket].state = "CONNECTING")
        IN [S EXCEPT !.hist.status =
                         [connected |-> isConnected, connecting |-> isConnecting,
                          pendingPairing |-> "false",
                          currentDomain |-> S.currentState.activeDomain,
                          reason |-> IF ~Truthy(isConnected) /\ ~Truthy(isConnecting)
                                     THEN "app_not_running" ELSE "null"]]
        : S \in {S0} })

GetStatus ==
    /\ Running /\ MoreEvents
    /\ Commit(getStatus(Event(Cur)), "getStatus")

\* sendResponse of a runtime message: the first call answers the request, the
\* channel is closed by it and a later call reaches nobody
sendResponse(S0, response0) ==
    Value({
        [S EXCEPT !.probe.calls = @ + 1,
                  !.probe.answered = TRUE,
                  !.probe.response = IF S.probe.answered THEN @ ELSE response]
        : S \in {S0}, response \in {response0} })

Succeeded == [success |-> TRUE, message |-> "Successfully connected to WhatPulse", error |-> ""]
FailedWith(error) == [success |-> FALSE, message |-> "", error |-> error]

PROBE_TIMEOUT_MS == 5000

\* a faulty variant: the response is left to the socket's handlers, the timeout
\* only closes the socket
probeTimeoutSilent(S0) ==
    Value({
        [S EXCEPT !.probe.timer = NoTime, !.probe.state = "CLOSED"]
        : S \in {S0} })

\* testConnectionForOptions(sendResponse): a new request starts with a new channel
testConnectionForOptions(S0, ctorOk0) ==
    Value({
        LET S1 == [S EXCEPT !.probe = NoProbe] IN
        IF ctorOk
        THEN [S1 EXCEPT !.probe.state = "CONNECTING",
                        !.probe.timer = S.now + Ticks(PROBE_TIMEOUT_MS)]
        ELSE sendResponse(S1, FailedWith("e.message"))
        : S \in {S0}, ctorOk \in {ctorOk0} })

\* testWs.onopen
probeOnopen(S0) ==
    Value({
        [sendResponse([S EXCEPT !.probe.timer = NoTime, !.probe.opened = TRUE], Succeeded)
            EXCEPT !.probe.state = "CLOSING"]
        : S \in {S0} })

\* testWs.onerror
probeOnerror(S0) ==
    Value({
        sendResponse([S EXCEPT !.probe.timer = NoTime],
                     FailedWith("Connection failed. Is WhatPulse running?"))
        : S \in {S0} })

\* the timeout of the test: close() on a socket that is still connecting fails the
\* connection, which raises the socket's error event afterwards
probeTimeout(S0) ==
    Value({
        sendResponse([S EXCEPT !.probe.timer = NoTime, !.probe.state = "CLOSING"],
                     FailedWith("Connection timeout. Is WhatPulse running?"))
        : S \in {S0} })

\* the options page asks for a connection test; one test runs at a time
TestConnection(ctorOk) ==
    /\ Running /\ MoreEvents
    /\ probe.state \in {"NONE", "CLOSED"}
    /\ Commit(testConnectionForOptions(Event(Cur), ctorOk), "testConnection")

ProbeOpens ==
    /\ Running
    /\ probe.state = "CONNECTING"
    /\ Commit(probeOnopen(Cur), "probeOpen")

\* the connection of the probe fails before it is open, or while it is closing
ProbeErrors ==
    /\ Running
    /\ probe.state \in {"CONNECTING", "CLOSING"}
    /\ Commit(probeOnerror([Cur EXCEPT !.probe.state = "CLOSED"]), "probeError")

ProbeTimerFires ==
    /\ Running
    /\ probe.timer # NoTime /\ probe.timer <= now
    /\ Commit(probeTimeout(Cur), "probeTimeout")

\* the closing handshake of the probe ends; no handler is set for it
ProbeCloses ==
    /\ Running
    /\ probe.state = "CLOSING"
    /\ Commit([Cur EXCEPT !.probe.state = "CLOSED"], "probeClosed")

\* ------------------------------------------------------------ unload
BeforeUnload ==
    /\ Running /\ MoreEvents
    /\ Commit(disconnect(sendGoodbye(sendUsageReport(Event(Cur)))), "beforeunload")

\* ------------------------------------------------------------ specification
\* what the worker does once it runs: startup, the clock and its timers, input,
\* the continuations of its awaits, the handshake on a socket
WorkerSteps ==
    \/ ClientIdReady
    \/ \E ctorOk \in BOOLEAN : Initialize(ctorOk)
    \/ AdvanceFine
    \/ AdvanceCoarse
    \/ UpdateCurrentTabDone
    \/ IdlePollDone
    \/ \E t \in intervals : ReportTimerFires(t)
    \/ \E t \in timeouts, ctorOk \in BOOLEAN : ReconnectTimerFires(t, ctorOk)
    \/ \E s \in SocketIds : SocketOpens(s)
    \/ HelloReady
    \/ \E s \in SocketIds : \E msg \in PeerReplies(sockets[s].hello) : PeerAnswers(s, msg)
    \/ \E t \in TabIds, message \in InputDeltas : InputStats(t, message)

\* the connection's environment: the enabled switch, sockets closing, stray messages
ConnectionEvents ==
    \/ \E b \in BOOLEAN : StorageSetEnabled(b)
    \/ StorageChanged
    \/ \E wasEnabled \in BOOLEAN, ctorOk \in BOOLEAN : ConfigReloaded(wasEnabled, ctorOk)
    \/ \E s \in SocketIds : SocketCloses(s)
    \/ \E s \in SocketIds, msg \in PeerOther : PeerSendsOther(s, msg)

\* the browser's events: focus, tabs, idle state
BrowserEvents ==
    \/ \E w \in 0..3 : FocusChanged(w)
    \/ FocusRegainedDone
    \/ \E url \in NormalUrls : TabActivated(url)
    \/ \E url \in NormalUrls : TabUpdated(url)
    \/ \E delivered \in BOOLEAN : IdleChanged(delivered)

Next ==
    \/ WorkerSteps
    \/ ConnectionEvents
    \/ BrowserEvents
    \/ BeforeUnload
    \/ \E s \in SocketIds : \E msg \in PeerReplies(sockets[s].hello) : PeerRepeats(s, msg)
    \/ GetStatus
    \/ \E ctorOk \in BOOLEAN : TestConnection(ctorOk)
    \/ ProbeOpens
    \/ ProbeErrors
    \/ ProbeTimerFires
    \/ ProbeCloses

\* the worker with all of its environment
Spec == Init /\ [][Next]_vars

\* the worker and its connection: the browser window stays as it was at startup
NextTransport == WorkerSteps \/ ConnectionEvents \/ BeforeUnload
SpecTransport == InitPaired /\ [][NextTransport]_vars

\* the same for an extension that has yet to be paired
SpecPairing == InitUnpaired /\ [][NextTransport]_vars

\* the worker and its connection without stray messages, input and unload, under
\* the scheduling the platform gives: time passes, a timer that is due fires, a
\* suspended handler is resumed, and a socket that is closing gets closed
ClosingCompletes == \E s \in SocketIds : sockets[s].state = "CLOSING" /\ SocketCloses(s)
ReconnectFires == \E t \in timeouts, ctorOk \in BOOLEAN : ReconnectTimerFires(t, ctorOk)
ReportFires == \E t \in intervals : ReportTimerFires(t)
Reloads == \E wasEnabled \in BOOLEAN, ctorOk \in BOOLEAN : ConfigReloaded(wasEnabled, ctorOk)

NextRetry ==
    \/ ClientIdReady
    \/ \E ctorOk \in BOOLEAN : Initialize(ctorOk)
    \/ AdvanceCoarse
    \/ UpdateCurrentTabDone
    \/ IdlePollDone
    \/ ReportFires
    \/ ReconnectFires
    \/ \E s \in SocketIds : SocketOpens(s)
    \/ HelloReady
    \/ \E s \in SocketIds : \E msg \in PeerReplies(sockets[s].hello) : PeerAnswers(s, msg)
    \/ \E s \in SocketIds : SocketCloses(s)
    \/ \E b \in BOOLEAN : StorageSetEnabled(b)
    \/ StorageChanged
    \/ Reloads

SpecRetry ==
    /\ InitPaired /\ [][NextRetry]_vars
    /\ WF_vars(AdvanceCoarse)
    /\ WF_vars(ReconnectFires)
    /\ WF_vars(ReportFires)
    /\ WF_vars(UpdateCurrentTabDone)
    /\ WF_vars(IdlePollDone)
    /\ WF_vars(HelloReady)
    /\ WF_vars(StorageChanged)
    /\ WF_vars(Reloads)
    /\ WF_vars(ClosingCompletes)

\* the worker and a peer that may repeat its answers; the enabled switch stays as
\* it was at startup
NextSession ==
    \/ WorkerSteps
    \/ StorageChanged
    \/ Reloads
    \/ \E s \in SocketIds : SocketCloses(s)
    \/ \E s \in SocketIds : \E msg \in PeerReplies(sockets[s].hello) : PeerRepeats(s, msg)
SpecSession == InitPaired /\ [][NextSession]_vars

\* the worker while the user stays on one page, goes idle and returns; every change
\* of the idle state is told to the worker, and the clock is also read every 10 s
AdvanceTen == AdvanceBy(Ticks(10 * 1000), 0)
NextIdle ==
    \/ WorkerSteps
    \/ AdvanceTen
    \/ StorageChanged
    \/ Reloads
    \/ IdleChanged(TRUE)
SpecIdle == InitAnyFocus /\ [][NextIdle]_vars

\* the worker and the browser: the connection, once made, stays up
NextTracking == WorkerSteps \/ BrowserEvents \/ BeforeUnload
SpecTracking == InitPaired /\ [][NextTracking]_vars

\* the worker of an extension that ran before: the store holds the metadata records
\* of earlier runs, one sent a second before this start and one that turns seven
\* days old after MetadataAgesAt ticks; the user changes pages
MetadataAgesAt == 30
MaxAgeTicks == Ticks(METADATA_MAX_AGE_DAYS * 24 * 60 * 60 * 1000)
StoredRecords ==
    {NoTimes,
     [d \in Domains |-> IF d = DomainOf[URL_A] THEN 0 - TicksPerSecond
                        ELSE IF d = DomainOf[URL_B] THEN MetadataAgesAt - MaxAgeTicks
                        ELSE NoTime]}
InitMetadata == Start(StoredRecords, {<<>>}, {"none"}, {TRUE}, {"t1"}, {TRUE})
NextMetadata ==
    \/ WorkerSteps
    \/ StorageChanged
    \/ Reloads
    \/ \E url \in NormalUrls : TabActivated(url)
    \/ \E url \in NormalUrls : TabUpdated(url)
SpecMetadata == InitMetadata /\ [][NextMetadata]_vars

\* the worker and its connection, without input and unload, and the requests of the
\* popup and the options page
Requests ==
    \/ GetStatus
    \/ \E ctorOk \in BOOLEAN : TestConnection(ctorOk)
    \/ ProbeOpens
    \/ ProbeErrors
    \/ ProbeTimerFires
    \/ ProbeCloses
NextRequests == NextRetry \/ Requests
SpecRequests == InitPaired /\ [][NextRequests]_vars

\* extractDomain on its own: a URL string is given, the background's function and
\* the popup's copy are applied to it
SchemeSet ==
    {<<"h","t","t","p","s">>, <<"h","t","t","p">>, <<"H","T","T","P","S">>,
     <<"c","h","r","o","m","e">>, <<"f","i","l","e">>, <<"f","t","p">>}
HostSet ==
    {<<"w","w","w",".","E","X","A","M","P","L","E",".","c","o","m">>,
     <<"e","x","a","m","p","l","e",".","c","o","m">>,
     <<"a",".","c","o">>,
     <<"w","w","w",".","a",".","c","o">>,
     <<"W","W","W",".","a",".","c","o">>,
     <<"w","w","w",".","w","w","w",".","a",".","c","o">>,
     <<"w","w","w","a",".","c","o">>,
     <<"m",".","a",".","c","o">>,
     <<"x",".","I","o">>,
     <<"w","w","w",".","c","o","m">>,
     <<"w","w","w",".">>,
     <<"l","o","c","a","l","h","o","s","t">>,
     <<"a",".","c">>,
     <<"a",".","c","o",".">>,
     <<"1",".","2",".","3",".","4">>,
     <<"1","2","7",".","0",".","0",".","1">>,
     <<"w","w","w",".","1",".","2",".","3",".","4">>,
     <<"[",":",":","1","]">>,
     <<>>}
PortSet == {<<>>, <<":","8","0">>}
PathSet == {<<>>, <<"/","p","a","t","h">>, <<"/","1",".","2",".","3",".","4","?","q","=","a",".","c">>}
RawUrls ==
    {scheme \o <<":","/","/">> \o host \o port \o path :
        scheme \in SchemeSet, host \in HostSet, port \in PortSet, path \in PathSet}
    \cup {<<>>,
          <<"a",".","c","o">>,
          <<"a",".","c","o","/","p","a","t","h">>,
          <<"/","/","a",".","c","o">>,
          <<"a","b","o","u","t",":","b","l","a","n","k">>,
          <<"h","t","t","p",":","a",".","c","o">>}
InitDomains == Start({NoTimes}, RawUrls, {"none"}, {TRUE}, {"t1"}, {TRUE})
Extract ==
    /\ ~lookup.done
    /\ lookup' = [lookup EXCEPT !.done = TRUE,
                                !.background = extractDomain(ParseUrl(lookup.url)),
                                !.popup = popupExtractDomain(ParseUrl(lookup.url))]
    /\ UNCHANGED <<now, browser, storage, config, clientId, websocket, usageReportTimer,
                   reconnectTimer, currentState, timeTracking, accumulatedInput,
                   metadataSentTimes, sockets, intervals, timeouts, tasks, probe,
                   content, sendLog, hist, ev>>
NextDomains == Extract
SpecDomains == InitDomains /\ [][NextDomains]_vars

\* the worker's startup and the content script of the page in tab 1
InitContent == Start({NoTimes}, {<<>>}, Scripts, {TRUE}, {"t1"}, {TRUE})
ContentSteps ==
    \/ ContentKeydown
    \/ ContentMousedown
    \/ \E e \in WheelEvents : ContentWheel(e)
    \/ \E pos \in MousePositions : ContentMousemove(pos)
    \/ ContentFrame
    \/ \E sendOk \in BOOLEAN : ContentReport(sendOk)
    \/ ContentDelivered
NextContent ==
    \/ ClientIdReady
    \/ \E ctorOk \in BOOLEAN : Initialize(ctorOk)
    \/ UpdateCurrentTabDone
    \/ ContentSteps
SpecContent == InitContent /\ [][NextContent]_vars

\* ------------------------------------------------------------ properties
RECURSIVE SumOver(_, _)
SumOver(f, D) ==
    IF D = {} THEN 0
    ELSE LET d == CHOOSE x \in D : TRUE IN f[d] + SumOver(f, D \ {d})

NoSeconds == [d \in Domains |-> 0]
NoInput == [d \in Domains |-> ZeroInput]

\* the usage_report calls in a log, and the last of them
UsageReports(log) == {i \in DOMAIN log : log[i].type = "usage_report"}
LastUsageReport(log) ==
    log[CHOOSE i \in UsageReports(log) : \A j \in UsageReports(log) : j <= i]
Sent(log) == {log[i] : i \in {j \in DOMAIN log : log[j].ok}}

\* what a report carries, as the accumulators hold it
CarriedSeconds(m) == [d \in Domains |-> ReportSeconds(m.report, d)]
CarriedInput(m) == [d \in Domains |-> ReportInput(m.report, d)]

InputLeq(a, b) ==
    /\ a.keys <= b.keys /\ a.clicks <= b.clicks
    /\ a.scrolls <= b.scrolls /\ a.mouseDistanceIn <= b.mouseDistanceIn

\* C1: the seconds credited to all domains together never exceed the time during
\* which isFocused && !isIdle held (whole seconds never exceed the ticks they span).
C1_CreditedWithinActiveTime ==
    SumOver(hist.creditedTime, Domains) * TicksPerSecond <= hist.activeTicks

\* C2: in every step, after a usage_report whose send failed the accumulators hold
\* exactly what that report carried and lastReportTime is what it was; after one
\* whose send succeeded both accumulators are empty and lastReportTime is the send
\* time; and a step that sends no usage_report takes nothing out of the accumulators
\* and leaves lastReportTime alone.
C2_Step ==
    IF UsageReports(sendLog') # {}
    THEN LET m == LastUsageReport(sendLog')
         IN IF m.ok
            THEN /\ timeTracking'.accumulatedTime = NoSeconds
                 /\ accumulatedInput' = NoInput
                 /\ timeTracking'.lastReportTime = m.ts
                 /\ m.ts = now'
            ELSE /\ timeTracking'.accumulatedTime = CarriedSeconds(m)
                 /\ accumulatedInput' = CarriedInput(m)
                 /\ \A d \in Domains :
                        /\ timeTracking'.accumulatedTime[d] >= timeTracking.accumulatedTime[d]
                        /\ InputLeq(accumulatedInput[d], accumulatedInput'[d])
                 /\ timeTracking'.lastReportTime = timeTracking.lastReportTime
                 /\ m.period_start = timeTracking.lastReportTime
    ELSE /\ \A d \in Domains :
                /\ timeTracking'.accumulatedTime[d] >= timeTracking.accumulatedTime[d]
                /\ InputLeq(accumulatedInput[d], accumulatedInput'[d])
         /\ timeTracking'.lastReportTime = timeTracking.lastReportTime

C2_ClearedOnlyBySuccessfulSend == [][C2_Step]_vars

\* a send failed and kept its data, after an earlier send had succeeded
C2_Witness ==
    /\ UsageReports(sendLog) # {}
    /\ ~LastUsageReport(sendLog).ok
    /\ timeTracking.accumulatedTime # NoSeconds
    /\ hist.sentTime # NoSeconds
    /\ timeTracking.lastReportTime > 0

\* C3: for every domain, the seconds and the input counts ever credited to it are
\* those carried by the usage_reports whose send succeeded plus those the
\* accumulators hold now.
C3_CreditedIsSentPlusHeld ==
    \A d \in Domains :
        /\ hist.creditedTime[d] = hist.sentTime[d] + timeTracking.accumulatedTime[d]
        /\ hist.creditedInput[d] = AddInput(hist.sentInput[d], accumulatedInput[d])

\* a report that could not be sent earlier has now gone out with a later one
C3_Witness ==
    /\ hist.heldBack
    /\ \E m \in Sent(sendLog) : m.type = "usage_report"
    /\ \E d \in Domains : hist.sentTime[d] > 0 /\ hist.creditedTime[d] = hist.sentTime[d]

\* C4: nothing that is sent names the domain of the private window's tab.
C4_NothingSentForIncognito ==
    \A m \in Sent(sendLog) :
        /\ m.domain # SecretDomain
        /\ \A e \in m.report : e.domain # SecretDomain

\* C5: from an AUTH_FAILED error until a pairing_approved, a hello that is sent
\* carries an empty auth_token and no usage_report is sent.
C5_NoReportAfterAuthFailed ==
    hist.authFailed =>
        \A m \in Sent(sendLog) :
            /\ m.type = "hello" => m.auth_token = ""
            /\ m.type # "usage_report"

\* C6: a usage_report that is sent carries at most 35 seconds for each domain and
\* at most 35 seconds in all.
C6_ReportWithinPeerLimits ==
    \A m \in Sent(sendLog) :
        m.type = "usage_report" =>
            /\ \A e \in m.report : e.seconds <= PEER_MAX_SECONDS
            /\ SumOver(CarriedSeconds(m), Domains) <= PEER_MAX_SECONDS

\* C7: no two sockets made by connect() are Connecting, Open or Closing at once.
NotClosed == {s \in SocketIds : sockets[s].state \in {"CONNECTING", "OPEN", "CLOSING"}}
C7_OneSocketNotClosed == Cardinality(NotClosed) <= 1

\* C8: in every step there is at most one pending reconnect timer and reconnectTimer
\* is its handle; a timer that was pending and did not fire is still the pending one;
\* and a new timer is set only with enabled true, for the reconnect delay.
C8_Step ==
    /\ Cardinality(timeouts') <= 1
    /\ \A t \in timeouts' : reconnectTimer' = t.id
    /\ timeouts' = {} => reconnectTimer' = Null
    /\ \A t \in timeouts' \ timeouts :
          /\ config'.enabled
          /\ t.due = now' + Ticks(RECONNECT_DELAY_MS)
    /\ ev' \in {"onclose", "onmessageOther", "sendHello", "updateCurrentTab"} =>
          \A t \in timeouts : t \in timeouts'

C8_OneReconnectTimer == [][C8_Step]_vars

\* a socket closed while a reconnect timer was pending: the timer is the one it was
C8_Witness ==
    /\ ev = "onclose"
    /\ \E t \in timeouts : t.due < now + Ticks(RECONNECT_DELAY_MS)

\* C9: a step in which a socket closes leaves no report timer, and it leaves the
\* pending reconnect timer as it was, or none with enabled false, or else a new one
\* due after the reconnect delay.
C9_Step ==
    ev' = "onclose" =>
        /\ usageReportTimer' = Null
        /\ intervals' = {}
        /\ IF reconnectTimer # Null THEN timeouts' = timeouts /\ reconnectTimer' = reconnectTimer
           ELSE IF ~config.enabled THEN timeouts' = {} /\ reconnectTimer' = Null
           ELSE /\ timeouts' = {[id |-> reconnectTimer',
                                 due |-> now + Ticks(RECONNECT_DELAY_MS)]}
                /\ reconnectTimer' # Null

C9_CloseStopsReportsAndSchedulesReconnect == [][C9_Step]_vars

\* the session socket, on which the peer had acknowledged the hello, closed: no
\* report timer is left and a reconnect is due after the reconnect delay
C9_Witness ==
    /\ ev = "onclose"
    /\ websocket # Null
    /\ sockets[websocket].state = "CLOSED" /\ sockets[websocket].replied
    /\ usageReportTimer = Null /\ intervals = {}
    /\ \E t \in timeouts : t.id = reconnectTimer /\ t.due = now + Ticks(RECONNECT_DELAY_MS)

\* C10: with enabled true, after a socket closed or new WebSocket threw, connect()
\* is called once more, unless enabled turns false first or the reconnect is due
\* after the last instant of the clock.
Failed == ev = "onclose" \/ hist.threw
BeyondTheClock == \E t \in timeouts : t.due > MaxTime
C10_FailureIsRetried ==
    \A parity \in {0, 1} :
        (Failed /\ config.enabled /\ hist.connects % 2 = parity)
            ~> (hist.connects % 2 # parity \/ ~config.enabled \/ BeyondTheClock)

\* new WebSocket threw in the reconnect timer's callback, and connect() runs again
C10_Witness ==
    /\ ev = "reconnectTimer"
    /\ hist.connects >= 3
    /\ config.enabled
    /\ websocket # Null /\ sockets[websocket].state = "CONNECTING"

\* the reconnect timer is pending: the handler's last call scheduled it
ReconnectPending ==
    /\ reconnectTimer' # Null
    /\ timeouts' = {[id |-> reconnectTimer', due |-> now' + Ticks(RECONNECT_DELAY_MS)]}

\* the socket the message came on is being closed and the worker holds none
ConnectionClosed ==
    /\ websocket # Null
    /\ sockets[websocket].state = "OPEN"
    /\ sockets'[websocket].state = "CLOSING"
    /\ websocket' = Null

\* C11: when the handler of an error AUTH_FAILED has finished, the token is empty in
\* memory and in storage, the connection is closed and, if the extension is
\* enabled, a reconnect timer is pending.
C11_Step ==
    (ev' = "onmessage" /\ hist'.received = "AUTH_FAILED") =>
        /\ config'.authToken = ""
        /\ storage'.authToken = ""
        /\ ConnectionClosed
        /\ config'.enabled => ReconnectPending

C11_AuthFailedClearsTokenAndReconnects == [][C11_Step]_vars

\* an AUTH_FAILED has been handled: before it the token was stored (the storage
\* listener is about to run), now none is, and the reconnect timer is pending
C11_Witness ==
    /\ ev = "onmessage" /\ hist.received = "AUTH_FAILED"
    /\ tasks["storageEvent"] > 0
    /\ storage.authToken = "" /\ config.authToken = ""
    /\ websocket = Null /\ reconnectTimer # Null

\* C12: when the handler of an error PAIRING_REJECTED has finished, the connection
\* is closed, a reconnect timer is pending, and the token is what it was, empty;
\* the next hello that is sent carries the empty token.
C12_Step ==
    /\ (ev' = "onmessage" /\ hist'.received = "PAIRING_REJECTED") =>
          /\ config'.authToken = "" /\ config.authToken = ""
          /\ storage'.authToken = storage.authToken
          /\ ConnectionClosed
          /\ config'.enabled => ReconnectPending
    /\ hist.rejected = "yes" =>
          \A m \in Sent(sendLog') : m.type = "hello" => m.auth_token = ""

C12_PairingRejectedReconnects == [][C12_Step]_vars

\* the hello of the connection made after a rejection has been sent
C12_Witness ==
    /\ ev = "sendHello"
    /\ hist.rejected = "retried"
    /\ \E m \in Sent(sendLog) : m.type = "hello" /\ m.auth_token = ""

\* C13: when the handler of a hello_ack or a pairing_approved has finished, one more
\* updateCurrentTab() has been started and exactly one report timer is running, a full
\* interval from now, however often such a message came; a pairing_approved has put
\* its token into config and into storage, a hello_ack has left the token alone.
C13_Step ==
    (ev' \in {"onmessage", "onmessageAgain"}
        /\ hist'.received \in {"hello_ack", "pairing_approved"}) =>
        /\ tasks'["updateCurrentTab"] = tasks["updateCurrentTab"] + 1
        /\ usageReportTimer' # Null
        /\ intervals' = {[id |-> usageReportTimer',
                          due |-> now' + Ticks(USAGE_REPORT_INTERVAL_MS)]}
        /\ IF hist'.received = "pairing_approved"
           THEN config'.authToken \in AuthTokens /\ storage'.authToken = config'.authToken
           ELSE config'.authToken = config.authToken /\ storage'.authToken = storage.authToken

C13_AuthenticatedStartsOneReportTimer == [][C13_Step]_vars

\* a pairing_approved came a second time, while the report timer of the first was running
C13_Witness ==
    /\ ev = "onmessageAgain" /\ hist.received = "pairing_approved"
    /\ now > 0
    /\ storage.authToken \in AuthTokens
    /\ Cardinality(intervals) = 1 /\ usageReportTimer # Null

\* the calls of sendMessage for messages of one type, by their place in a log
Calls(log, type) == {i \in DOMAIN log : log[i].type = type}

\* C14: a handler that called disconnect() has attempted the usage_report before the
\* goodbye, has sent both while the socket was still open, and has then closed the
\* socket; the worker is left without socket and report timer and, where
\* disconnect() was the handler's last call, without reconnect timer.
C14_Step ==
    hist'.disconnected =>
        /\ websocket' = Null
        /\ usageReportTimer' = Null /\ intervals' = {}
        /\ ev' \in {"configReloaded", "beforeunload"} =>
              reconnectTimer' = Null /\ timeouts' = {}
        /\ ev' # "beforeunload" =>
              /\ Cardinality(Calls(sendLog', "usage_report")) <= 1
              /\ \A i \in Calls(sendLog', "usage_report"), j \in Calls(sendLog', "goodbye") :
                    i < j
        /\ websocket # Null =>
              /\ Calls(sendLog', "goodbye") # {}
              /\ sockets'[websocket].state \notin {"CONNECTING", "OPEN"}
              /\ sockets[websocket].state = "OPEN" =>
                    /\ \A i \in DOMAIN sendLog' : sendLog'[i].ok
                    /\ sockets'[websocket].state = "CLOSING"
        /\ websocket = Null => Calls(sendLog', "goodbye") = {} \/ ev' = "beforeunload"

C14_DisconnectFlushesGreetsCloses == [][C14_Step]_vars

\* the extension was disabled while connected with time to report, and a reconnect
\* timer cannot be pending then; the report went out, then the goodbye
C14_Witness ==
    /\ ev = "configReloaded" /\ hist.disconnected
    /\ Len(sendLog) = 2
    /\ sendLog[1].type = "usage_report" /\ sendLog[1].ok
    /\ sendLog[2].type = "goodbye" /\ sendLog[2].ok
    /\ \E s \in SocketIds : sockets[s].state = "CLOSING"

\* what the worker holds, apart from the log of its sends
Core(S) ==
    [config |-> S.config, clientId |-> S.clientId, storage |-> S.storage,
     websocket |-> S.websocket, sockets |-> S.sockets,
     usageReportTimer |-> S.usageReportTimer, reconnectTimer |-> S.reconnectTimer,
     intervals |-> S.intervals, timeouts |-> S.timeouts, tasks |-> S.tasks,
     currentState |-> S.currentState, timeTracking |-> S.timeTracking,
     accumulatedInput |-> S.accumulatedInput, metadataSentTimes |-> S.metadataSentTimes]

MessageTypes == {"hello", "goodbye", "usage_report", "metadata_update"}

\* C15: a message that was transmitted carries schema_version 1, the time of the send
\* and the client id; while the worker has no socket or one that is not open,
\* sendMessage returns false for any message, transmits nothing and changes nothing.
C15_SentIsStampedUnsentChangesNothing ==
    /\ \A m \in Sent(sendLog) :
          m.schema_version = 1 /\ m.ts = now /\ m.client_id = clientId /\ clientId = CLIENT_ID
    /\ \A i \in DOMAIN sendLog :
          ~sendLog[i].ok => sendLog[i].ts = NoTime /\ sendLog[i].schema_version = 0
    /\ ~SocketOpen(Cur) =>
          \A type \in MessageTypes :
            LET R == sendMessage(Cur, [BlankMsg EXCEPT !.type = type])
            IN /\ ~R.sendLog[Len(R.sendLog)].ok
               /\ Core(R) = Core(Cur)
               /\ R.hist.sentTime = hist.sentTime /\ R.hist.sentInput = hist.sentInput

\* reports were sent on an earlier connection; the hello of this one was not, for
\* its socket closed while getBrowserInfo() was awaited
C15_Witness ==
    /\ ev = "sendHello"
    /\ Len(sendLog) = 1 /\ ~sendLog[1].ok
    /\ websocket # Null /\ sockets[websocket].state = "CLOSED"
    /\ hist.sentTime # NoSeconds

\* C16: the handler of a message that does not parse, of a message of unknown type
\* or of an error with another code than AUTH_FAILED and PAIRING_REJECTED sends
\* nothing and changes nothing: the socket stays open, and config, storage, timers,
\* suspended calls, tracking state and accumulators are what they were.
C16_Step ==
    ev' = "onmessageOther" =>
        /\ hist'.received \in {"malformed", "unknown", "RATE_LIMITED"}
        /\ websocket # Null /\ sockets'[websocket].state = "OPEN"
        /\ sendLog' = <<>>
        /\ UNCHANGED <<config, clientId, storage, websocket, sockets, usageReportTimer,
                       reconnectTimer, intervals, timeouts, tasks, currentState,
                       timeTracking, accumulatedInput, metadataSentTimes, now>>

C16_OtherMessagesAreDiscarded == [][C16_Step]_vars

\* text that is no JSON came on an authenticated connection with its report timer
\* running, a domain being timed and input accumulated
C16_Witness ==
    /\ ev = "onmessageOther" /\ hist.received = "malformed"
    /\ usageReportTimer # Null /\ intervals # {}
    /\ Tracking(Cur) /\ accumulatedInput # NoInput
    /\ SocketOpen(Cur)

\* C17: the handler of an inputStats message adds the message's counts to the entry
\* of the sender's domain if the browser is focused, the user not idle and the
\* sender's URL has a domain; otherwise the input accumulator stays as it was.  The
\* time accumulator and the tracking state stay as they were in both cases.
C17_Step ==
    ev' = "inputStats" =>
        LET domain == DomainOf[TabUrl(Cur, hist'.sender)] IN
        /\ hist'.sender \in TabIds
        /\ timeTracking' = timeTracking
        /\ currentState' = currentState
        /\ \E message \in InputDeltas :
              accumulatedInput' =
                IF domain # NoDomain /\ currentState.isFocused /\ ~currentState.isIdle
                THEN [accumulatedInput EXCEPT ![domain] = AddInput(@, message)]
                ELSE accumulatedInput

C17_InputCountsOnlyWhileActive == [][C17_Step]_vars

\* input came from a page with a domain while the user was idle, with time
\* accumulated and not yet reported: it was dropped
C17_Witness ==
    /\ ev = "inputStats"
    /\ DomainOf[TabUrl(Cur, hist.sender)] # NoDomain
    /\ currentState.isFocused /\ currentState.isIdle
    /\ timeTracking.accumulatedTime # NoSeconds
    /\ accumulatedInput = NoInput

\* C18: while the user stays on a.co, the seconds credited to a.co never exceed the
\* time during which the user was not idle: nothing of the window between going idle
\* and returning is credited, whatever report ticks and idle polls fall into it.
C18_IdleWindowIsNotCredited ==
    hist.creditedTime[DomainOf[URL_A]] * TicksPerSecond <= hist.awakeTicks


\* the list has, for each domain with seconds or input, the one entry made of both,
\* and no other entry
ListsExactly(report, seconds, input) ==
    \A d \in Domains :
        {e \in report : e.domain = d} =
            IF seconds[d] > 0 \/ HasInput(input[d])
            THEN {ReportEntry(d, seconds[d], input[d])}
            ELSE {}

\* C19: the report list built from the accumulators has exactly one entry for each
\* domain with seconds, carrying the domain's input counts, and one entry with
\* seconds 0 for each domain with input only; a usage_report is made with a list
\* that is not empty, names no domain twice and has no entry without seconds and
\* input; a tick with nothing accumulated sends nothing.
C19_ReportListsAccumulators ==
    /\ ListsExactly(BuildReport(Cur), timeTracking.accumulatedTime, accumulatedInput)
    /\ \A e \in BuildReport(Cur) : e.domain \in Domains
    /\ \A i \in Calls(sendLog, "usage_report") :
          LET report == sendLog[i].report IN
          /\ report # {}
          /\ \A e1, e2 \in report : e1.domain = e2.domain => e1 = e2
          /\ \A e \in report :
                e.seconds > 0 \/ e.keys # 0 \/ e.clicks # 0 \/ e.scrolls # 0
                              \/ e.mouse_distance_in # 0
    /\ ev = "reportTimer" =>
          IF Calls(sendLog, "usage_report") = {}
          THEN timeTracking.accumulatedTime = NoSeconds /\ accumulatedInput = NoInput
          ELSE /\ Cardinality(Calls(sendLog, "usage_report")) = 1
               /\ IF LastUsageReport(sendLog).ok
                  THEN timeTracking.accumulatedTime = NoSeconds /\ accumulatedInput = NoInput
                  ELSE LastUsageReport(sendLog).report = BuildReport(Cur)

\* a tick made a report with an entry for the domain that was timed and an entry
\* with seconds 0 for a domain that had input only
C19_Witness ==
    /\ ev = "reportTimer"
    /\ \E i \in Calls(sendLog, "usage_report") :
          /\ \E e \in sendLog[i].report : e.seconds > 0
          /\ \E e \in sendLog[i].report : e.seconds = 0 /\ e.keys > 0

\* C20: a usage_report carries as period_start the time of the last usage_report
\* that was sent, or the time the worker started if none was, and as period_end the
\* time of the call, which is not earlier; a report that is sent starts where the
\* last one sent ended, and lastReportTime moves only when a report is sent.
C20_Step ==
    /\ \A i \in Calls(sendLog', "usage_report") :
          LET m == sendLog'[i]
              sentBefore == \E j \in Calls(sendLog', "usage_report") : j < i /\ sendLog'[j].ok
          IN /\ m.period_end = now'
             /\ m.period_start = IF sentBefore THEN now' ELSE hist.lastSentAt
             /\ m.period_start <= m.period_end
    /\ timeTracking'.lastReportTime = hist'.lastSentAt
    /\ (\A i \in Calls(sendLog', "usage_report") : ~sendLog'[i].ok) =>
          timeTracking'.lastReportTime = timeTracking.lastReportTime

C20_PeriodsAreContiguous == [][C20_Step]_vars

\* a tick sent a report whose period starts at the earlier report's end, after a
\* tick in between at which nothing was sent or the send failed
C20_Witness ==
    /\ ev = "reportTimer"
    /\ \E m \in Sent(sendLog) :
          /\ m.type = "usage_report"
          /\ m.period_start > 0
          /\ m.period_end - m.period_start > Ticks(USAGE_REPORT_INTERVAL_MS)

\* ------------------------------------------------------------ C21
\* the metadata_update messages of a log that went out for the domain d
MetadataSent(log, d) ==
    {i \in 1..Len(log) : log[i].type = "metadata_update" /\ log[i].domain = d /\ log[i].ok}
\* nothing was sent for d yet, or what was sent is more than seven days old
RecordExpired(times, d, t) == times[d] = NoTime \/ t - times[d] > MaxAgeTicks

C21_Step ==
    /\ \A i \in 1..Len(sendLog') :
          sendLog'[i].type = "metadata_update" =>
              LET d == sendLog'[i].domain IN
              /\ ev' \in {"updateCurrentTab", "focusRegained"}
              /\ d # NoDomain
              /\ d # timeTracking.currentDomain /\ d = timeTracking'.currentDomain
              /\ websocket # Null /\ sockets[websocket].state = "OPEN" /\ sendLog'[i].ok
              /\ RecordExpired(metadataSentTimes, d, now)
              /\ metadataSentTimes'[d] = now'
              /\ storage'.metadataSentTimes[d] = now'
    /\ \A d \in Domains :
          metadataSentTimes'[d] # metadataSentTimes[d] =>
              \/ ev' = "initialize" /\ metadataSentTimes' = storage.metadataSentTimes
              \/ MetadataSent(sendLog', d) # {}
    /\ \A d \in Domains :
          /\ ev' \in {"updateCurrentTab", "focusRegained"}
          /\ d # timeTracking.currentDomain /\ d = timeTracking'.currentDomain
          /\ RecordExpired(metadataSentTimes, d, now)
          /\ MetadataSent(sendLog', d) = {}
          => RecordExpired(metadataSentTimes', d, now')

\* C21: a metadata_update for a domain goes out only in the handler that switches to
\* that domain, only over the open socket and only when nothing was sent for the
\* domain or what was sent is more than seven days old; the time of sending is
\* recorded, in memory and in the store, exactly when the message went out; a switch
\* that sends nothing leaves the record as it was and the domain still due.
C21_MetadataOnlyWhenDueAndRecordedWhenSent == [][C21_Step]_vars

\* a page whose record turned seven days old is visited and its metadata goes out,
\* while the record of the start page, a second older than this run, was kept
C21_Witness ==
    /\ ev = "updateCurrentTab"
    /\ MetadataSent(sendLog, DomainOf[URL_B]) # {}
    /\ now > MetadataAgesAt
    /\ metadataSentTimes[DomainOf[URL_B]] = now
    /\ metadataSentTimes[DomainOf[URL_A]] = 0 - TicksPerSecond

\* ------------------------------------------------------------ C22
\* C22: a status query changes nothing of the worker's state and sends nothing; its
\* answer has connected true exactly when the session socket is open (null, not
\* false, while the worker has no socket), connecting true exactly when it is
\* connecting, never both, currentDomain the active domain, and the reason
\* app_not_running exactly when it is neither connected nor connecting.
C22_Step ==
    ev' = "getStatus" =>
        LET isOpen == websocket # Null /\ sockets[websocket].state = "OPEN"
            isConnecting == websocket # Null /\ sockets[websocket].state = "CONNECTING"
            status == hist'.status
        IN /\ UNCHANGED <<now, browser, storage, config, clientId, websocket,
                          usageReportTimer, reconnectTimer, currentState, timeTracking,
                          accumulatedInput, metadataSentTimes, sockets, intervals,
                          timeouts, tasks, probe>>
           /\ sendLog' = <<>>
           /\ Truthy(status.connected) <=> isOpen
           /\ Truthy(status.connecting) <=> isConnecting
           /\ status.connected \in {"true", "false", "null"}
           /\ status.connecting \in {"true", "false", "null"}
           /\ ~(Truthy(status.connected) /\ Truthy(status.connecting))
           /\ status.currentDomain = currentState.activeDomain
           /\ status.reason = IF ~isOpen /\ ~isConnecting THEN "app_not_running" ELSE "null"

C22_StatusQueryReadsOnly == [][C22_Step]_vars

\* a status query is answered while the session socket is open and a page is active
C22_Witness ==
    /\ ev = "getStatus"
    /\ hist.status.connected = "true"
    /\ hist.status.reason = "null"
    /\ hist.status.currentDomain = DomainOf[URL_A]
    /\ usageReportTimer # Null

\* ------------------------------------------------------------ C23
ProbeHandlers == {"testConnection", "probeOpen", "probeError", "probeTimeout", "probeClosed"}

\* C23: the handlers of a connection test leave the session socket, the timers, the
\* tracking state and the accumulators as they were and send nothing on the session;
\* the request gets one response, which is never replaced: success with a message
\* exactly when the probe socket opened, failure with an error when it failed, was
\* not open when the timeout fired, or could not be made; until then the probe is
\* connecting with its timeout ahead; once answered the probe socket is closing or
\* closed.
C23_Step ==
    /\ ev' \in ProbeHandlers =>
          /\ UNCHANGED <<now, browser, storage, config, clientId, websocket,
                         usageReportTimer, reconnectTimer, currentState, timeTracking,
                         accumulatedInput, metadataSentTimes, sockets, intervals,
                         timeouts, tasks>>
          /\ sendLog' = <<>>
    /\ probe.answered /\ ev' # "testConnection" =>
          probe'.answered /\ probe'.response = probe.response
    /\ probe'.answered =>
          /\ probe'.state \in {"NONE", "CLOSING", "CLOSED"}
          /\ probe'.timer = NoTime
          /\ probe'.response.success <=> probe'.opened
          /\ IF probe'.response.success
             THEN probe'.response.message # "" /\ probe'.response.error = ""
             ELSE probe'.response.message = "" /\ probe'.response.error # ""
    /\ ~probe'.answered =>
          \/ probe' = NoProbe
          \/ /\ probe'.state = "CONNECTING"
             /\ probe'.timer # NoTime
             /\ now' <= probe'.timer /\ probe'.timer <= now' + Ticks(PROBE_TIMEOUT_MS)

C23_ConnectionTestAnswersOnceAndLeavesSession == [][C23_Step]_vars

\* a probe that did not open in time was closed by the timeout, which answered the
\* request; the error event that the close raised found the request answered
C23_Witness ==
    /\ ev = "probeError"
    /\ probe.state = "CLOSED"
    /\ probe.calls = 2
    /\ probe.response = FailedWith("Connection timeout. Is WhatPulse running?")
    /\ websocket # Null /\ sockets[websocket].state = "OPEN"

\* ------------------------------------------------------------ C24
\* the labels of a host name, read from its end
RECURSIVE LabelsFrom(_, _, _)
LabelsFrom(host, n, label) ==
    IF n = 0 THEN <<label>>
    ELSE IF host[n] = "." THEN Append(LabelsFrom(host, n - 1, <<>>), label)
    ELSE LabelsFrom(host, n - 1, <<host[n]>> \o label)
RECURSIVE JoinLabels(_)
JoinLabels(labels) ==
    IF Len(labels) = 1 THEN labels[1]
    ELSE labels[1] \o <<".">> \o JoinLabels(Tail(labels))
IsNumber(label) == Len(label) \in 1..3 /\ \A i \in 1..Len(label) : label[i] \in Digits

\* the five rules of the domain extractor, in their order, on the labels of the host
ByTheRules(raw) ==
    LET url == ParseUrl(raw) IN
    IF ~url.ok THEN NoDomain
    ELSE IF url.protocol \notin {"http:", "https:"} THEN NoDomain
    ELSE LET all == LabelsFrom(url.hostname, Len(url.hostname), <<>>)
             labels == IF Len(all) >= 2 /\ all[1] = <<"w","w","w">> THEN Tail(all) ELSE all
         IN IF Len(labels) = 4 /\ \A i \in 1..4 : IsNumber(labels[i]) THEN NoDomain
            ELSE IF \E i \in 1..Len(labels) : \E j \in 1..Len(labels[i]) : labels[i][j] = ":"
            THEN NoDomain
            ELSE IF Len(labels) < 2 THEN NoDomain
            ELSE IF Len(labels[Len(labels)]) < 2 THEN NoDomain
            ELSE JoinLabels(labels)

ExampleUrl ==
    <<"h","t","t","p","s",":","/","/","w","w","w",".","E","X","A","M","P","L","E",
      ".","c","o","m","/","p","a","t","h">>
ExampleDomain == <<"e","x","a","m","p","l","e",".","c","o","m">>

WholeSeconds(start, t) == ((t - start) * MsPerTick) \div 1000
\* the state apart from the tracking state and the history
Untracked(S) == [Core(S) EXCEPT !.timeTracking = 0]

\* C25: recordTimeAndSwitchDomain(newDomain), called in any state the worker reaches:
\* when a domain is tracked with a start time and the browser is focused and not
\* idle, the whole seconds since the start are added to that domain's total and to
\* no other; otherwise no total changes; afterwards newDomain is tracked from now,
\* or nothing is tracked (no domain, no start) when newDomain is none; nothing else
\* changes.
C25_SwitchCreditsOldDomainAndOpensNew ==
    \A newDomain \in Domains \cup {NoDomain} :
        LET R == recordTimeAndSwitchDomain(Cur, newDomain)
            credit == IF /\ timeTracking.currentDomain # NoDomain
                         /\ timeTracking.domainStartTime # NoTime
                         /\ currentState.isFocused /\ ~currentState.isIdle
                      THEN WholeSeconds(timeTracking.domainStartTime, now)
                      ELSE 0
        IN /\ \A d \in Domains :
                 R.timeTracking.accumulatedTime[d] =
                     timeTracking.accumulatedTime[d]
                       + (IF d = timeTracking.currentDomain THEN credit ELSE 0)
           /\ R.timeTracking.currentDomain = newDomain
           /\ R.timeTracking.domainStartTime = (IF newDomain # NoDomain THEN now ELSE NoTime)
           /\ R.timeTracking.lastReportTime = timeTracking.lastReportTime
           /\ Untracked(R) = Untracked(Cur)

\* the user went from the start page to another page after whole seconds on it: the
\* seconds are in the start page's total and the other page is tracked from now
C25_Witness ==
    /\ ev = "updateCurrentTab"
    /\ timeTracking.currentDomain = DomainOf[URL_B]
    /\ timeTracking.domainStartTime = now
    /\ timeTracking.accumulatedTime[DomainOf[URL_A]] > 0
    /\ hist.events = 1

\* ------------------------------------------------------------ C26
PauseHandlers == {"onFocusChanged", "onStateChanged", "checkIdleState"}

\* C26: pause() credits the open interval as a switch would: the seconds are added
\* only if the worker held the browser for focused and not idle up to the event that
\* pauses; the start time is cleared and the domain kept; with no open interval
\* nothing changes, so that a second pause changes nothing.
C26_Step ==
    /\ ev' \in PauseHandlers /\ (\E d \in Domains : hist'.creditedTime[d] > hist.creditedTime[d])
          => currentState.isFocused /\ ~currentState.isIdle
    /\ LET R == pauseTimeTracking(Cur') IN
          /\ R.timeTracking.domainStartTime = NoTime
          /\ R.timeTracking.currentDomain = timeTracking'.currentDomain
          /\ ~Tracking(Cur') => Core(R) = Core(Cur')
          /\ Core(pauseTimeTracking(R)) = Core(R)

C26_PauseCreditsAsSwitchAndIsIdempotent == [][C26_Step]_vars

\* ------------------------------------------------------------ C27
\* C27: resume(), called in any state the worker reaches, starts an interval at now
\* exactly when a domain is held without start time, and otherwise changes nothing;
\* it leaves the accumulators and everything but the start time alone, leaves the
\* start of an open interval where it is, and a second resume changes nothing.
C27_ResumeOpensOnlyAClosedInterval ==
    LET R == resumeTimeTracking(Cur) IN
    /\ R.timeTracking =
          (IF timeTracking.currentDomain # NoDomain /\ timeTracking.domainStartTime = NoTime
           THEN [timeTracking EXCEPT !.domainStartTime = now]
           ELSE timeTracking)
    /\ timeTracking.domainStartTime # NoTime =>
          R.timeTracking.domainStartTime = timeTracking.domainStartTime
    /\ R.timeTracking.accumulatedTime = timeTracking.accumulatedTime
    /\ R.accumulatedInput = accumulatedInput
    /\ R.hist.creditedTime = hist.creditedTime
    /\ Untracked(R) = Untracked(Cur)
    /\ resumeTimeTracking(R) = R

\* the user was idle and is back: the interval that the pause closed, after crediting
\* its seconds, is open again from now
C27_Witness ==
    /\ ev = "onStateChanged"
    /\ ~currentState.isIdle /\ currentState.isFocused
    /\ timeTracking.currentDomain = DomainOf[URL_A]
    /\ timeTracking.domainStartTime = now
    /\ timeTracking.accumulatedTime[DomainOf[URL_A]] > 0
    /\ hist.awakeTicks < now

\* ------------------------------------------------------------ C28
IdleHandlers == {"onStateChanged", "checkIdleState"}
\* the tracking state with its interval closed as pause() closes it
Paused(S) == pauseTimeTracking(S).timeTracking
\* the tracking state with a closed interval opened at t
Opened(tt, t) ==
    IF tt.currentDomain # NoDomain /\ tt.domainStartTime = NoTime
    THEN [tt EXCEPT !.domainStartTime = t] ELSE tt

\* C28: a handler that turns the idle flag on (the push or the poll) or the focus
\* flag off pauses; one that turns the idle flag off resumes if the focus flag is on
\* and does nothing otherwise; one that turns the focus flag on changes no interval
\* itself: its continuation first resolves the active tab anew and then resumes if
\* the idle flag is off; an idle or focus event that changes neither flag leaves the
\* tracking state alone.
C28_Step ==
    /\ ev' \in IdleHandlers /\ ~currentState.isIdle /\ currentState'.isIdle
          => timeTracking' = Paused(Cur)
    /\ ev' = "onFocusChanged" /\ currentState.isFocused /\ ~currentState'.isFocused
          => timeTracking' = Paused(Cur)
    /\ ev' \in IdleHandlers /\ currentState.isIdle /\ ~currentState'.isIdle
          => timeTracking' = (IF currentState'.isFocused THEN Opened(timeTracking, now)
                              ELSE timeTracking)
    /\ ev' = "onFocusChanged" /\ ~currentState.isFocused /\ currentState'.isFocused
          => /\ timeTracking' = timeTracking
             /\ tasks'["focusRegained"] = tasks["focusRegained"] + 1
    /\ ev' = "focusRegained"
          => LET U == updateCurrentTab(Cur) IN
             /\ currentState'.activeDomain = U.currentState.activeDomain
             /\ currentState'.activeTabId = QueryTab(Cur)
                    \/ (currentState'.activeTabId = Null /\ Incognito(QueryTab(Cur)))
             /\ timeTracking' = (IF ~currentState.isIdle THEN Opened(U.timeTracking, now)
                                 ELSE U.timeTracking)
    /\ (/\ ev' \in IdleHandlers \cup {"onFocusChanged", "idleMissed"}
        /\ currentState'.isIdle = currentState.isIdle
        /\ currentState'.isFocused = currentState.isFocused)
          => /\ timeTracking' = timeTracking
             /\ tasks'["focusRegained"] = tasks["focusRegained"]

C28_FlagChangesPauseAndResume == [][C28_Step]_vars

\* the report timer's poll found the user idle, which no push had told, and closed
\* the interval of the page
C28_Witness ==
    /\ ev = "checkIdleState"
    /\ currentState.isIdle /\ browser.idle
    /\ currentState.isFocused
    /\ timeTracking.currentDomain = DomainOf[URL_A]
    /\ timeTracking.domainStartTime = NoTime
    /\ hist.creditedTime[DomainOf[URL_A]] > 0

\* ------------------------------------------------------------ C29
\* C29: when the report timer's handler is done, the idle flag is what the platform's
\* idle state was at the tick (the poll was applied before the report), and the
\* handler credited no time while the platform held the user for idle.
C29_Step ==
    ev' = "reportTimer" =>
        /\ currentState'.isIdle = browser.idle
        /\ (\E d \in Domains : hist'.creditedTime[d] > hist.creditedTime[d]) => ~browser.idle

C29_TickPollsBeforeItCredits == [][C29_Step]_vars

\* ------------------------------------------------------------ C30
FlushHandlers == {"reportTimer", "beforeunload"}
\* what a flush credits, and that it leaves the domain and the other totals alone
FlushCredits(seconds) ==
    /\ timeTracking'.currentDomain = timeTracking.currentDomain
    /\ \A d \in Domains :
          hist'.creditedTime[d] =
              hist.creditedTime[d] + (IF d = timeTracking.currentDomain THEN seconds ELSE 0)

\* C30 as it is stated: a flush of an open interval of a focused, not idle browser
\* credits the whole seconds since the start to the tracked domain and re-opens the
\* interval at now; a flush in any other state credits nothing and leaves the
\* interval as it is.
C30_StepAsStated ==
    ev' \in FlushHandlers =>
        IF Tracking(Cur) /\ currentState.isFocused /\ ~currentState.isIdle
        THEN /\ FlushCredits(WholeSeconds(timeTracking.domainStartTime, now))
             /\ timeTracking'.domainStartTime = now
        ELSE /\ FlushCredits(0)
             /\ timeTracking'.domainStartTime = timeTracking.domainStartTime

C30_Step ==
    ev' \in FlushHandlers =>
        LET seconds == WholeSeconds(timeTracking.domainStartTime, now) IN
        /\ IF Tracking(Cur) /\ currentState.isFocused /\ ~currentState.isIdle
           THEN /\ FlushCredits(seconds)
                /\ timeTracking'.domainStartTime =
                       (IF seconds > 0 THEN now ELSE timeTracking.domainStartTime)
           ELSE /\ FlushCredits(0)
                /\ timeTracking'.domainStartTime = timeTracking.domainStartTime
        /\ (\E d \in Domains : hist'.creditedTime[d] > hist.creditedTime[d]) =>
              /\ timeTracking'.domainStartTime = now
              /\ timeTracking'.domainStartTime > timeTracking.domainStartTime

C31_NeedsUpdateIffNoRecordOrOlderThanSevenDays ==
    \A d \in Domains \cup {NoDomain} :
        /\ needsMetadataUpdate(Cur, d) \in BOOLEAN
        /\ needsMetadataUpdate(Cur, d) <=>
              /\ d # NoDomain
              /\ \/ metadataSentTimes[d] = NoTime
                 \/ (now - metadataSentTimes[d]) * MsPerTick > 7 * 24 * 60 * 60 * 1000

\* the record of one page is seven days old to the tick and the page is not due,
\* while a page without record is
C31_Witness ==
    /\ hist.initialized
    /\ now = MetadataAgesAt
    /\ metadataSentTimes[DomainOf[URL_B]] = MetadataAgesAt - MaxAgeTicks
    /\ ~needsMetadataUpdate(Cur, DomainOf[URL_B])
    /\ needsMetadataUpdate(Cur, SecretDomain)

\* ------------------------------------------------------------ C32
\* C32: a handler that did not send a usage_report lowers no domain's seconds, keys,
\* clicks, scrolls or mouse distance; one that sent a usage_report leaves both
\* accumulators empty; and every domain that has an entry in the time accumulator
\* has at least one second in it.
C32_EntriesHaveSeconds ==
    \A d \in Domains :
        IF d \in hist.timeEntries THEN timeTracking.accumulatedTime[d] >= 1
        ELSE timeTracking.accumulatedTime[d] = 0

C32_Step ==
    /\ C32_EntriesHaveSeconds'
    /\ IF \E i \in UsageReports(sendLog') : sendLog'[i].ok
       THEN /\ timeTracking'.accumulatedTime = NoSeconds
            /\ accumulatedInput' = NoInput
            /\ hist'.timeEntries = {}
       ELSE \A d \in Domains :
              /\ timeTracking'.accumulatedTime[d] >= timeTracking.accumulatedTime[d]
              /\ accumulatedInput'[d].keys >= accumulatedInput[d].keys
              /\ accumulatedInput'[d].clicks >= accumulatedInput[d].clicks
              /\ accumulatedInput'[d].scrolls >= accumulatedInput[d].scrolls
              /\ accumulatedInput'[d].mouseDistanceIn >= accumulatedInput[d].mouseDistanceIn
              /\ hist.timeEntries \subseteq hist'.timeEntries

C32_AccumulatorsGrowUntilSent == [][C32_Step]_vars

\* a page has an entry with seconds and keys counted for it
C32_Witness ==
    \E d \in Domains :
        /\ d \in hist.timeEntries
        /\ timeTracking.accumulatedTime[d] >= 1
        /\ accumulatedInput[d].keys > 0

\* ------------------------------------------------------------ C33
\* no chrome.storage.onChanged handler is waiting to start or suspended in loadConfig
HandlersDone ==
    /\ hist.initialized
    /\ tasks["storageEvent"] = 0
    /\ tasks["storageWasEnabled"] = 0
    /\ tasks["storageWasDisabled"] = 0

Live == {s \in SocketIds : sockets[s].state \in {"CONNECTING", "OPEN"}}
Closing == {s \in SocketIds : sockets[s].state = "CLOSING"}

\* C33: once every storage-change handler has run to completion, the loaded
\* configuration is the stored one and the connection agrees with it: enabled, a
\* socket is connecting or open, or a reconnect timer or a close event is pending;
\* disabled, no socket is connecting or open and no reconnect timer is pending.
C33_ConnectionAgreesWithEnabled ==
    (Running /\ HandlersDone) =>
        /\ config.enabled = storage.enabled
        /\ IF storage.enabled
           THEN Live # {} \/ reconnectTimer # Null \/ Closing # {}
           ELSE Live = {} /\ reconnectTimer = Null /\ websocket = Null

\* ------------------------------------------------------------ C34
\* the peer has answered the hello of socket s with hello_ack or pairing_approved:
\* the handler of an error answer closes the socket it came on
Authenticated(s) == sockets[s].state = "OPEN" /\ sockets[s].replied

\* C34: a usage_report that a handler sends goes out on a socket on which a
\* hello_ack or a pairing_approved had been received before the handler started.
C34_Step ==
    \A i \in UsageReports(sendLog') :
        sendLog'[i].ok => sendLog'[i].sock # Null /\ Authenticated(sendLog'[i].sock)

C34_ReportOnlyOnAuthenticatedSocket == [][C34_Step]_vars

\* ------------------------------------------------------------ C35
\* C35: a message that a handler sends on a socket other than a hello comes after the
\* hello of that socket, and a hello is the first one sent on its socket.
C35_Step ==
    \A i \in DOMAIN sendLog' :
        sendLog'[i].ok =>
            LET m == sendLog'[i] IN
            /\ m.sock # Null
            /\ IF m.type = "hello"
               THEN sockets[m.sock].hello = "none"
               ELSE \/ sockets[m.sock].hello # "none"
                    \/ \E j \in 1..(i - 1) :
                          sendLog'[j].ok /\ sendLog'[j].type = "hello" /\ sendLog'[j].sock = m.sock

C35_HelloIsFirstOnItsSocket == [][C35_Step]_vars

\* ------------------------------------------------------------ C36
\* C36: while the socket of the session is open and a hello_ack or pairing_approved
\* was received on it, the report timer is running.
C36_AuthenticatedSessionReports ==
    (Running /\ websocket # Null /\ Authenticated(websocket)) =>
        /\ usageReportTimer # Null
        /\ \E t \in intervals : t.id = usageReportTimer

\* ------------------------------------------------------------ C37
\* C37: a goodbye that a handler sends on a socket is the last message the handler
\* sends on that socket.
C37_Step ==
    \A i \in Calls(sendLog', "goodbye") :
        sendLog'[i].ok =>
            \A j \in DOMAIN sendLog' :
                (j > i /\ sendLog'[j].ok) => sendLog'[j].sock # sendLog'[i].sock

C37_GoodbyeIsLastOnItsSocket == [][C37_Step]_vars

\* ------------------------------------------------------------ C38
\* the tab query of the handler that ran last found no tab or a private one
NoTabToTrack ==
    /\ ev \in {"updateCurrentTab", "focusRegained"}
    /\ QueryTab(Cur) = Null \/ Incognito(QueryTab(Cur))

\* C38: whenever no updateCurrentTab() is suspended, the domain shown to the popup,
\* currentState.activeDomain, is the domain that is timed, timeTracking.currentDomain;
\* after an updateCurrentTab() that found no tab or a private tab both are none.
C38_DisplayedDomainIsTrackedDomain ==
    /\ (tasks["updateCurrentTab"] = 0 /\ tasks["focusRegained"] = 0) =>
          currentState.activeDomain = timeTracking.currentDomain
    /\ NoTabToTrack =>
          currentState.activeDomain = NoDomain /\ timeTracking.currentDomain = NoDomain

\* a.co was timed and shown; then the user went to a private window
C38_Witness ==
    /\ NoTabToTrack /\ Incognito(QueryTab(Cur))
    /\ tasks["updateCurrentTab"] = 0 /\ tasks["focusRegained"] = 0
    /\ hist.creditedTime[DomainOf[URL_A]] > 0
    /\ currentState.activeDomain = NoDomain

\* ------------------------------------------------------------ C39
\* the scroll counter of a message, under the name its script gives it
ScrollOf(message) == Or0(message, "scrolls") + Or0(message, "scrollPixels")

\* C39: the interval callback of a content script hands over all its counters and
\* then resets them; the listener adds the keys, clicks, scroll counter and mouse
\* distance of the message it receives to the entry of the sender's domain if the
\* browser is focused and the user not idle.
C39_Step ==
    /\ (ev' = "contentReport" /\ content'.outbox # <<>>) =>
          /\ content'.outbox = <<content.inputStats>>
          /\ content'.inputStats = ZeroStats(content.script)
    /\ ev' = "inputStats" /\ content.outbox # <<>> =>
          LET message == Head(content.outbox)
              domain == DomainOf[TabUrl(Cur, 1)]
          IN (domain # NoDomain /\ Active(Cur)) =>
                accumulatedInput'[domain] =
                    AddInput(accumulatedInput[domain],
                             [keys |-> message["keys"], clicks |-> message["clicks"],
                              scrolls |-> ScrollOf(message),
                              mouseDistanceIn |-> message["mouseDistanceIn"]])

C39_ReportedCountsAreConsumed == [][C39_Step]_vars
====
